---- MODULE Spec2Model ----
(***************************************************************************)
(* The aggregation coordinator of the Scrutiny integration:                *)
(* ScrutinyDataUpdateCoordinator (coordinator.py) and the part of the      *)
(* framework's DataUpdateCoordinator that wraps its _async_update_data.    *)
(*                                                                         *)
(* One refresh cycle is: the summary call, the fan-out of one detail call  *)
(* per device of the summary, the fan-in (asyncio.gather with              *)
(* return_exceptions=True), the reduction of every result into the         *)
(* cycle's own mapping, and the publication of that mapping.               *)
(***************************************************************************)
EXTENDS Integers, Sequences, FiniteSets, TLC

\* ------------------------------------------------------------------ bounds
\* Number of refresh cycles a behaviour runs.
MaxCycles == 2

\* Number of times the reducer is applied to one (record, result) input.
MaxReducerCalls == 2

\* Number of calls of the API client a behaviour makes, all of which may be
\* in flight together.
MaxApiCalls == 2

\* Calls of the sensor's _handle_coordinator_update.
MaxEntityUpdates == 2

\* Calls of the SMART attribute sensor's _handle_coordinator_update.
MaxSmartUpdates == 3

\* Setups of the config entry, refreshes of its coordinator after the first
\* one, and changes of its options.
MaxSetups == 3
MaxEntryRefreshes == 2
MaxOptionsChanges == 2

\* Config flows that run side by side, submissions of one flow's form, and
\* calls of the options flow's step.
MaxFlows == 2
MaxSubmits == 2
MaxOptionsSteps == 2

\* The device identifiers (WWNs) the remote may report.
WWNS == {"wwn1", "wwn2"}

\* ------------------------------------------------------------- state
VARIABLES
    pc,                          \* "idle", "summary" (awaiting the summary
                                 \* call) or "gather" (awaiting the gather)
    cycle,                       \* number of cycles started
    heap,                        \* the dict objects: object id -> its items,
                                 \* a sequence of records in insertion order
    data,                        \* coordinator.data: an object id or NoneRef
    aggregated_disk_data,        \* self.aggregated_disk_data: an object id
    last_update_success,         \* coordinator.last_update_success
    last_exception,              \* coordinator.last_exception
    current_run_aggregated_data, \* the running cycle's local: an object id
    wwn_order,                   \* the running cycle's local list
    detail_tasks,                \* the detail coroutines, with their state
    detail_results,              \* what the gather holds for each task
    summary_data,                \* what the cycle's summary call came to
    summary_inflight,            \* summary calls awaiting their response
    summary_calls,               \* summary calls issued by the cycle
    detail_calls,                \* detail calls started by the cycle
    completion_order,            \* the devices in the order their detail
                                 \* calls ended
    prev_data,                   \* what a reader saw when the cycle started
    coalesced,                   \* a trigger arrived while the cycle ran
    last_cycle                   \* the cycle that ended last: whether one has,
                                 \* whether it succeeded, whether async_refresh
                                 \* raised to its caller, and its summary

\* The reducer applied on its own to one record and one detail result.
VARIABLES
    reducer_initial,             \* the record before the first call
    reducer_response,            \* the detail result passed to every call
    reducer_target,              \* the record (target_data_dict) now
    reducer_first,               \* the record after the first call
    reducer_raised,              \* class of the exception a call raised, or ""
    reducer_calls                \* number of calls made

reducer_vars ==
    <<reducer_initial, reducer_response, reducer_target, reducer_first,
      reducer_raised, reducer_calls>>

coordinator_vars ==
    <<pc, cycle, heap, data, aggregated_disk_data, last_update_success,
      last_exception, current_run_aggregated_data, wwn_order, detail_tasks,
      detail_results, summary_data, summary_inflight, summary_calls,
      detail_calls, completion_order, prev_data, coalesced, last_cycle>>

\* The API client on its own.
VARIABLES
    api_calls                    \* the calls of the client: for each its kind
                                 \* (summary or details), the URL requested,
                                 \* its state, the HTTP exchange it met, what
                                 \* _request came to and what the call came to

api_vars == <<api_calls>>

\* One main disk sensor on its own, in front of a coordinator whose state is
\* set from outside.
VARIABLES
    entity_coordinator,          \* the coordinator the sensor reads: its
                                 \* last_update_success and its data
    entity,                      \* the sensor: _wwn, entity_description.key
                                 \* and _attr_native_value
    ha_state,                    \* the calls of async_write_ha_state: how
                                 \* many, and what the last one wrote
    entity_updates,              \* calls of _handle_coordinator_update
    update_pending               \* the coordinator changed and the sensor
                                 \* has not been told yet

entity_vars ==
    <<entity_coordinator, entity, ha_state, entity_updates, update_pending>>

\* One SMART attribute sensor on its own, in front of a coordinator whose
\* state is set from outside.
VARIABLES
    smart_coordinator,           \* the coordinator the sensor reads
    smart_entity,                \* the sensor: _wwn, _attribute_id_str,
                                 \* _attribute_metadata, _attr_native_value
                                 \* and _attr_extra_state_attributes
    smart_ha_state,              \* the calls of async_write_ha_state: how
                                 \* many, how many the last update made, and
                                 \* whether the sensor was available before
                                 \* and after it
    smart_updates,               \* calls of _handle_coordinator_update
    smart_pending                \* the coordinator changed and the sensor
                                 \* has not been told yet

smart_vars ==
    <<smart_coordinator, smart_entity, smart_ha_state, smart_updates,
      smart_pending>>

\* The config entry of the integration: its setup, unload and reload.
VARIABLES
    config_entry,                \* the entry: its state, runtime_data (the
                                 \* setup whose coordinator it holds, or 0),
                                 \* options, update listeners and on-unload
                                 \* callbacks
    hub_coordinator,             \* the coordinator the running setup made
    device_registry,             \* whether the hub device exists
    sensor_entities,             \* the devices that have sensor entities
    setup_call,                  \* the setup that runs or ran last: its
                                 \* number, how its first refresh ended,
                                 \* whether it forwarded the platform setup
                                 \* and whether it raised
    reload_log                   \* setups started, refreshes made, options
                                 \* changes made, reloads the last change
                                 \* asked for, reloads not yet run

lifecycle_vars ==
    <<config_entry, hub_coordinator, device_registry, sensor_entities,
      setup_call, reload_log>>

\* The config flow and the options flow.
VARIABLES
    flows,                       \* the config flows: for each its state, the
                                 \* host and port it works on, the error of
                                 \* the form shown and the exception behind
                                 \* it, the abort reason, the key the form's
                                 \* schema rejected, and its submissions
    entries,                     \* the config entries created, in order
    options_flow,                \* the options flow, started through Home
                                 \* Assistant or on a handler made directly
    options_entry                \* the entry whose options it is about

flow_vars == <<flows, entries, options_flow, options_entry>>

\* The variables of the parts modelled further down.
later_vars == <<smart_vars, lifecycle_vars, flow_vars>>

outside_smart_vars ==
    <<coordinator_vars, reducer_vars, api_vars, entity_vars, lifecycle_vars,
      flow_vars>>

outside_lifecycle_vars ==
    <<coordinator_vars, reducer_vars, api_vars, entity_vars, smart_vars,
      flow_vars>>

outside_flow_vars ==
    <<coordinator_vars, reducer_vars, api_vars, entity_vars, smart_vars,
      lifecycle_vars>>

unit_vars == <<reducer_vars, api_vars, entity_vars, later_vars>>

vars ==
    <<pc, cycle, heap, data, aggregated_disk_data, last_update_success,
      last_exception, current_run_aggregated_data, wwn_order, detail_tasks,
      detail_results, summary_data, summary_inflight, summary_calls,
      detail_calls, completion_order, prev_data, coalesced, last_cycle,
      reducer_initial, reducer_response, reducer_target, reducer_first,
      reducer_raised, reducer_calls, api_calls,
      entity_coordinator, entity, ha_state, entity_updates, update_pending,
      smart_coordinator, smart_entity, smart_ha_state, smart_updates,
      smart_pending,
      config_entry, hub_coordinator, device_registry, sensor_entities,
      setup_call, reload_log,
      flows, entries, options_flow, options_entry>>

\* ------------------------------------------------------- Python values
\* A JSON/Python value as far as the coordinator looks at it: its type tag t
\* and, for a non-empty mapping, what it is (k), whose (w) and of which
\* cycle's response (g).
EmptyMap == [t |-> "dict", k |-> "", w |-> "", g |-> 0]
NoneVal == [t |-> "none", k |-> "", w |-> "", g |-> 0]
StrVal == [t |-> "str", k |-> "text", w |-> "", g |-> 0]
MapVal(k, w, g) == [t |-> "dict", k |-> k, w |-> w, g |-> g]

\* Python truthiness of a value: None and the empty mapping are falsy.
Truthy(v) == v # NoneVal /\ v # EmptyMap

\* ------------------------------------------------- exception classes
ScrutinyApiErrors ==
    {"ScrutinyApiError", "ScrutinyApiConnectionError",
     "ScrutinyApiAuthError", "ScrutinyApiResponseError"}

\* isinstance(err, ScrutinyApiError)
IsScrutinyApiError(cls) == cls \in ScrutinyApiErrors

\* --------------------------------------------------- summary response
\* One value of the summary mapping (disk_summary_info): a mapping with an
\* optional "device" and an optional "smart" key, or a value of another type.
SummaryInfo(w, g) ==
    [t |-> "dict", has_device |-> TRUE, device |-> MapVal("device", w, g),
     has_smart |-> TRUE, smart |-> MapVal("smart", w, g)]
SummaryInfoNoSmart(w, g) ==
    [t |-> "dict", has_device |-> TRUE, device |-> MapVal("device", w, g),
     has_smart |-> FALSE, smart |-> NoneVal]
SummaryInfoNotADict ==
    [t |-> "none", has_device |-> FALSE, device |-> NoneVal,
     has_smart |-> FALSE, smart |-> NoneVal]

SummaryInfos(w, g) == {SummaryInfo(w, g), SummaryInfoNoSmart(w, g), SummaryInfoNotADict}

\* The sequences of distinct device identifiers of length at most n: the key
\* orders of a summary mapping (a Python dict iterates in insertion order).
RECURSIVE Rosters(_)
Rosters(n) ==
    IF n = 0 THEN {<<>>}
    ELSE LET shorter == Rosters(n - 1)
         IN shorter \cup
            {Append(p[1], p[2]) :
                p \in {q \in shorter \X WWNS :
                          /\ Len(q[1]) = n - 1
                          /\ \A i \in 1..Len(q[1]) : q[1][i] # q[2]}}

\* The summary mappings async_get_summary may return in cycle g, each a
\* sequence of (key, value) pairs in the mapping's iteration order.
SummaryMappings(g) ==
    UNION {LET choices == [i \in 1..Len(r) |-> SummaryInfos(r[i], g)]
           IN {[i \in 1..Len(r) |-> [wwn |-> r[i], info |-> f[i]]] :
                  f \in {h \in [1..Len(r) -> UNION {choices[i] : i \in 1..Len(r)}] :
                            \A i \in 1..Len(r) : h[i] \in choices[i]}}
           : r \in Rosters(Cardinality(WWNS))}

\* The classes of exception that can leave async_get_summary: the three typed
\* failures, the generic ScrutinyApiError it wraps unexpected errors in, and
\* an exception raised after its try block (api.py line 281).
SummaryExceptions == ScrutinyApiErrors \cup {"AttributeError"}

\* ---------------------------------------------------- detail response
\* What asyncio.gather hands back for one detail task: an exception object,
\* a decoded mapping, or a value of another type.
NoData ==
    [t |-> "none", has_device |-> FALSE, device |-> NoneVal,
     has_smart_results |-> FALSE, smart_results_is_list |-> FALSE,
     smart_results |-> <<>>]
ExcResult(cls) ==
    [t |-> "exc", cls |-> cls, has_data |-> FALSE, data |-> NoData,
     has_metadata |-> FALSE, metadata |-> NoneVal]
OtherResult ==
    [t |-> "other", cls |-> "", has_data |-> FALSE, data |-> NoData,
     has_metadata |-> FALSE, metadata |-> NoneVal]
\* {"success": true, "data": {"device": {...}, "smart_results": [{...}]},
\*  "metadata": {...}}
FullPayload(w, g) ==
    [t |-> "dict", cls |-> "", has_data |-> TRUE,
     data |-> [t |-> "dict", has_device |-> TRUE,
               device |-> MapVal("details_device", w, g),
               has_smart_results |-> TRUE, smart_results_is_list |-> TRUE,
               smart_results |-> <<MapVal("smart_result", w, g)>>],
     has_metadata |-> TRUE, metadata |-> MapVal("metadata", w, g)]
\* {"success": true, "data": null, "metadata": {...}}: it has both keys the
\* detail fetcher asks for (api.py lines 362-365).
NullDataPayload(w, g) ==
    [t |-> "dict", cls |-> "", has_data |-> TRUE, data |-> NoData,
     has_metadata |-> TRUE, metadata |-> MapVal("metadata", w, g)]

\* The outcomes of the detail call for device w in cycle g.
DetailExceptions == {"ScrutinyApiConnectionError", "ScrutinyApiResponseError"}
DetailOutcomes(w, g) ==
    {ExcResult(cls) : cls \in DetailExceptions}
        \cup {FullPayload(w, g), NullDataPayload(w, g)}

\* ------------------------------------------------------- API client
\* What one HTTP exchange comes to: the session raises (a timeout, an aiohttp
\* connection error, another aiohttp client error, or something else), or a
\* response arrives with a status, a content type and a body that decodes to
\* a JSON value or does not.
HttpStatuses == {200, 401, 403, 404, 500}

\* A decoded body as far as the fetchers look at it: a mapping or not, its
\* "success" value, and its "data", "summary" and "metadata" values.
NoBody ==
    [t |-> "none", success |-> "absent", has_data |-> FALSE, data_t |-> "none",
     has_summary |-> FALSE, summary |-> [t |-> "none", devices |-> <<>>],
     has_metadata |-> FALSE]

Body(success, has_data, data_t, has_summary, summary, has_metadata) ==
    [t |-> "dict", success |-> success, has_data |-> has_data, data_t |-> data_t,
     has_summary |-> has_summary, summary |-> summary,
     has_metadata |-> has_metadata]

NoSummaryValue == [t |-> "none", devices |-> <<>>]

\* Values of data.summary: null, a list, a mapping without or with devices.
SummaryValues ==
    {NoSummaryValue, [t |-> "list", devices |-> <<>>],
     [t |-> "dict", devices |-> <<>>], [t |-> "dict", devices |-> <<"wwn1", "wwn2">>]}

\* The decoded bodies: a JSON value that is no mapping; mappings with a
\* success value that is true, false, absent or truthy without being true
\* (1); with "data" absent, null or a mapping; with or without "summary" and
\* "metadata".
Bodies ==
    {[NoBody EXCEPT !.t = "list"]}
    \cup {Body(sc, FALSE, "none", FALSE, NoSummaryValue, FALSE) :
            sc \in {"false", "absent", "truthy"}}
    \cup {Body("true", d.has, d.t, FALSE, NoSummaryValue, hm) :
            d \in {[has |-> FALSE, t |-> "none"], [has |-> TRUE, t |-> "none"],
                   [has |-> TRUE, t |-> "dict"]},
            hm \in BOOLEAN}
    \cup {Body("true", TRUE, "dict", TRUE, sv, FALSE) : sv \in SummaryValues}
    \cup {Body("truthy", TRUE, "dict", TRUE, sv, TRUE) :
            sv \in {[t |-> "dict", devices |-> <<"wwn1", "wwn2">>]}}

Exchange(transport, status, content_type, decodes, body) ==
    [transport |-> transport, status |-> status, content_type |-> content_type,
     decodes |-> decodes, body |-> body]

Exchanges ==
    {Exchange(tr, 0, "", "json", NoBody) :
        tr \in {"TimeoutError", "ClientConnectionError", "ClientError", "RuntimeError"}}
    \cup {Exchange("response", st, "text/html", "json", NoBody) :
            st \in HttpStatuses \ {200}}
    \cup {Exchange("response", 200, "text/html", "json", NoBody)}
    \cup {Exchange("response", 200, "application/json", dec, NoBody) :
            dec \in {"JSONDecodeError", "UnicodeDecodeError"}}
    \cup {Exchange("response", 200, "application/json", "json", b) : b \in Bodies}
    \cup {Exchange("response", 200, "application/json; charset=utf-8", "json",
                   Body("true", TRUE, "dict", TRUE,
                        [t |-> "dict", devices |-> <<"wwn1", "wwn2">>], TRUE))}

\* "application/json" in content_type
IsJsonContentType(content_type) ==
    content_type \in {"application/json", "application/json; charset=utf-8"}

\* Python truthiness of the "success" value.
SuccessFlag(body) == body.success \in {"true", "truthy"}

\* A _request that takes only status 401 for an authentication error.
RequestAuthOnly401(exchange) ==
    IF exchange.transport = "TimeoutError"
    THEN [raised |-> TRUE, cls |-> "ScrutinyApiConnectionError"]
    ELSE IF exchange.transport = "ClientConnectionError"
    THEN [raised |-> TRUE, cls |-> "ScrutinyApiConnectionError"]
    ELSE IF exchange.transport = "response" /\ exchange.status >= 400
    THEN IF exchange.status = 401
         THEN [raised |-> TRUE, cls |-> "ScrutinyApiAuthError"]
         ELSE [raised |-> TRUE, cls |-> "ScrutinyApiResponseError"]
    ELSE IF exchange.transport = "ClientError"
    THEN [raised |-> TRUE, cls |-> "ScrutinyApiConnectionError"]
    ELSE IF exchange.transport = "response"
    THEN [raised |-> FALSE, cls |-> ""]
    ELSE [raised |-> TRUE, cls |-> exchange.transport]

\* _request: the except clauses in their order.  raise_for_status raises
\* ClientResponseError for a status of 400 and more; an exception that is
\* none of those caught leaves _request as it is.
Request(exchange) ==
    IF exchange.transport = "TimeoutError"
    THEN [raised |-> TRUE, cls |-> "ScrutinyApiConnectionError"]
    ELSE IF exchange.transport = "ClientConnectionError"
    THEN [raised |-> TRUE, cls |-> "ScrutinyApiConnectionError"]
    ELSE IF exchange.transport = "response" /\ exchange.status >= 400
    THEN IF exchange.status \in {401, 403}
         THEN [raised |-> TRUE, cls |-> "ScrutinyApiAuthError"]
         ELSE [raised |-> TRUE, cls |-> "ScrutinyApiResponseError"]
    ELSE IF exchange.transport = "ClientError"
    THEN [raised |-> TRUE, cls |-> "ScrutinyApiConnectionError"]
    ELSE IF exchange.transport = "response"
    THEN [raised |-> FALSE, cls |-> ""]
    ELSE [raised |-> TRUE, cls |-> exchange.transport]

\* What a call of the client came to: an exception of class cls, the summary
\* mapping, or the whole decoded body.
ApiRaises(cls) ==
    [raised |-> TRUE, cls |-> cls, summary |-> NoSummaryValue, payload |-> NoBody]
ApiReturnsSummary(summary) ==
    [raised |-> FALSE, cls |-> "", summary |-> summary, payload |-> NoBody]
ApiReturnsPayload(body) ==
    [raised |-> FALSE, cls |-> "", summary |-> NoSummaryValue, payload |-> body]

\* The try block both fetchers share, up to the decoded body: the exception it
\* raises, as the except clauses of the fetcher turn it, or none.
\* ScrutinyApiError and its subclasses pass unchanged, JSONDecodeError becomes
\* ScrutinyApiResponseError, anything else ScrutinyApiError.
FetchAndDecode(exchange) ==
    LET request == Request(exchange)
    IN IF request.raised
       THEN IF IsScrutinyApiError(request.cls)
            THEN [raised |-> TRUE, cls |-> request.cls]
            ELSE [raised |-> TRUE, cls |-> "ScrutinyApiError"]
       ELSE IF ~IsJsonContentType(exchange.content_type)
       THEN [raised |-> TRUE, cls |-> "ScrutinyApiResponseError"]
       ELSE IF exchange.decodes = "JSONDecodeError"
       THEN [raised |-> TRUE, cls |-> "ScrutinyApiResponseError"]
       ELSE IF exchange.decodes # "json"
       THEN [raised |-> TRUE, cls |-> "ScrutinyApiError"]
       ELSE [raised |-> FALSE, cls |-> ""]

\* async_get_summary.  Its else block runs outside the except clauses:
\* data.get("data", {}).get("summary") raises AttributeError when "data" is
\* there and is no mapping.
AsyncGetSummary(exchange) ==
    LET decoded == FetchAndDecode(exchange)
        body == exchange.body
    IN IF decoded.raised THEN ApiRaises(decoded.cls)
       ELSE IF body.t # "dict" \/ ~SuccessFlag(body)
       THEN ApiRaises("ScrutinyApiResponseError")
       ELSE IF body.has_data /\ body.data_t # "dict"
       THEN ApiRaises("AttributeError")
       ELSE IF ~(body.has_data /\ body.has_summary /\ body.summary.t = "dict")
       THEN ApiRaises("ScrutinyApiResponseError")
       ELSE ApiReturnsSummary(body.summary)

\* A detail fetcher that does not ask for the "metadata" key.
AsyncGetDeviceDetailsDataOnly(wwn, exchange) ==
    LET decoded == FetchAndDecode(exchange)
        body == exchange.body
    IN IF decoded.raised THEN ApiRaises(decoded.cls)
       ELSE IF body.t # "dict" \/ ~SuccessFlag(body)
       THEN ApiRaises("ScrutinyApiResponseError")
       ELSE IF ~body.has_data
       THEN ApiRaises("ScrutinyApiResponseError")
       ELSE ApiReturnsPayload(body)

\* async_get_device_details: the whole decoded body, if it is a mapping with
\* a truthy "success" and the keys "data" and "metadata".
AsyncGetDeviceDetails(wwn, exchange) ==
    LET decoded == FetchAndDecode(exchange)
        body == exchange.body
    IN IF decoded.raised THEN ApiRaises(decoded.cls)
       ELSE IF body.t # "dict" \/ ~SuccessFlag(body)
       THEN ApiRaises("ScrutinyApiResponseError")
       ELSE IF ~body.has_data \/ ~body.has_metadata
       THEN ApiRaises("ScrutinyApiResponseError")
       ELSE ApiReturnsPayload(body)

\* The path a call asks _request for, and the URL _request makes of it:
\* {base_url}/{endpoint} with base_url = http://{host}:{port}/api.
SummaryEndpoint == <<"summary">>
DetailsEndpoint(wwn) == <<"device", wwn, "details">>
RequestUrl(endpoint) == <<"http://host:port", "api">> \o endpoint

\* ------------------------------------------------ coordinator, pure part
\* The aggregated record of one device, as created for it in the summary loop:
\* the summary fields (a missing key reads as the empty mapping) and the three
\* detail placeholders.
NewRecord(wwn, disk_summary_info) ==
    [wwn |-> wwn,
     summary_device |-> IF disk_summary_info.has_device
                        THEN disk_summary_info.device ELSE EmptyMap,
     summary_smart |-> IF disk_summary_info.has_smart
                       THEN disk_summary_info.smart ELSE EmptyMap,
     details_device |-> EmptyMap,
     details_smart_latest |-> EmptyMap,
     details_metadata |-> EmptyMap]

\* The loop over summary_data.items(): every entry appends its key to
\* wwn_order, stores its record in the cycle's mapping and creates (without
\* starting) the coroutine of its detail call.  An entry that is no mapping
\* has no .get: the loop ends there with AttributeError.
RECURSIVE SummaryLoop(_, _, _)
SummaryLoop(items, i, acc) ==
    IF i > Len(items) THEN acc
    ELSE LET wwn == items[i].wwn
             disk_summary_info == items[i].info
             ordered == [acc EXCEPT !.wwn_order = Append(@, wwn)]
         IN IF disk_summary_info.t # "dict"
            THEN [ordered EXCEPT !.raised = TRUE, !.cls = "AttributeError"]
            ELSE SummaryLoop(items, i + 1,
                    [ordered EXCEPT
                        !.items = Append(@, NewRecord(wwn, disk_summary_info)),
                        !.detail_tasks = Append(@, wwn)])

SummaryLoopStart ==
    [raised |-> FALSE, cls |-> "", wwn_order |-> <<>>, items |-> <<>>,
     detail_tasks |-> <<>>]

RankOfWwn(w) == IF w = "wwn1" THEN 1 ELSE 2

\* The pairs in the order of their keys, as sorted(summary_data.items()) gives
\* them.
ItemsSortedByKey(mapping) ==
    LET n == Len(mapping)
        position(i) ==
            Cardinality({j \in 1..n :
                RankOfWwn(mapping[j].wwn) < RankOfWwn(mapping[i].wwn)}) + 1
    IN [p \in 1..n |-> mapping[CHOOSE i \in 1..n : position(i) = p]]

\* Only the pairs of the disks whose summary has SMART data.
ItemsWithSmart(mapping) ==
    LET HasSmart(pair) == pair.info.t # "dict" \/ pair.info.has_smart
    IN SelectSeq(mapping, HasSmart)

\* summary_data.items(): the pairs of the mapping in its insertion order,
\* which is the order of the devices in the summary response.
Items(mapping) == mapping

\* A try block that, when the summary call fails, goes on with the disks of
\* the mapping published last.
TryBlockFetchesKnownDisks(summary) ==
    IF summary.kind # "mapping"
    THEN LET known == heap[aggregated_disk_data]
             keys == [i \in 1..Len(known) |-> known[i].wwn]
         IN [SummaryLoopStart EXCEPT !.wwn_order = keys, !.items = known,
                                     !.detail_tasks = keys]
    ELSE SummaryLoop(Items(summary.mapping), 1, SummaryLoopStart)

\* A try block whose check of the summary is `if not summary_data`, which an
\* empty mapping fails too.
TryBlockRejectsEmptySummary(summary) ==
    IF summary.kind = "raised"
    THEN [SummaryLoopStart EXCEPT !.raised = TRUE, !.cls = summary.cls]
    ELSE IF summary.kind # "mapping" \/ summary.mapping = <<>>
    THEN [SummaryLoopStart EXCEPT !.raised = TRUE,
                                  !.cls = "ScrutinyApiResponseError"]
    ELSE SummaryLoop(Items(summary.mapping), 1, SummaryLoopStart)

\* The try block of _async_update_data from the summary call to the gather,
\* for what the summary call came to: an exception leaves the block at once;
\* a value that is no mapping makes the coordinator's own check raise
\* ScrutinyApiResponseError; a mapping is looped over.
TryBlockToGather(summary) ==
    IF summary.kind = "raised"
    THEN [SummaryLoopStart EXCEPT !.raised = TRUE, !.cls = summary.cls]
    ELSE IF summary.kind # "mapping"
    THEN [SummaryLoopStart EXCEPT !.raised = TRUE,
                                  !.cls = "ScrutinyApiResponseError"]
    ELSE SummaryLoop(Items(summary.mapping), 1, SummaryLoopStart)

\* A reducer whose exception branch only logs: the record keeps what it had.
PlaceholdersKeepDetails(target_data_dict) == target_data_dict

\* The three assignments of `{}` of the exception branch and of the else
\* branch of _process_detail_results.
Placeholders(target_data_dict) ==
    [target_data_dict EXCEPT !.details_device = EmptyMap,
                             !.details_smart_latest = EmptyMap,
                             !.details_metadata = EmptyMap]

\* A reducer that takes element 0 of every non-empty list, without the test
\* of the element itself.
LatestSmartResultUntested(has_payload, actual_payload) ==
    IF /\ has_payload
       /\ actual_payload.has_smart_results
       /\ actual_payload.smart_results_is_list
       /\ Len(actual_payload.smart_results) > 0
    THEN actual_payload.smart_results[1] ELSE EmptyMap

\* What _process_detail_results stores as KEY_DETAILS_SMART_LATEST:
\* smart_results_list[0] if smart_results_list is truthy, is a list and its
\* first element is truthy; the empty mapping otherwise.  A missing key reads
\* as the empty list.
LatestSmartResult(has_payload, actual_payload) ==
    LET smart_results_list ==
            IF has_payload /\ actual_payload.has_smart_results
            THEN actual_payload.smart_results ELSE <<>>
        is_list ==
            ~(has_payload /\ actual_payload.has_smart_results)
                \/ actual_payload.smart_results_is_list
    IN IF /\ is_list
          /\ Len(smart_results_list) > 0
          /\ Truthy(smart_results_list[1])
       THEN smart_results_list[1] ELSE EmptyMap

\* _process_detail_results: the record target_data_dict after the call, and
\* whether the call raised (and what).
ProcessDetailResults(wwn_key, full_detail_response, target_data_dict) ==
    IF full_detail_response.t = "exc"
    THEN [raised |-> FALSE, cls |-> "", target |-> Placeholders(target_data_dict)]
    ELSE IF full_detail_response.t = "dict"
    THEN LET has_payload == full_detail_response.has_data
             actual_payload == full_detail_response.data
         IN IF has_payload /\ actual_payload.t # "dict"
            THEN \* actual_payload.get: no such attribute
                 [raised |-> TRUE, cls |-> "AttributeError",
                  target |-> target_data_dict]
            ELSE LET device == IF has_payload /\ actual_payload.has_device
                               THEN actual_payload.device ELSE EmptyMap
                     latest == LatestSmartResult(has_payload, actual_payload)
                     metadata_content ==
                         IF full_detail_response.has_metadata
                         THEN full_detail_response.metadata ELSE EmptyMap
                 IN [raised |-> FALSE, cls |-> "",
                     target |-> [target_data_dict EXCEPT
                                   !.details_device = device,
                                   !.details_smart_latest = latest,
                                   !.details_metadata = metadata_content]]
    ELSE [raised |-> FALSE, cls |-> "", target |-> Placeholders(target_data_dict)]

\* The index in the cycle's mapping of the record stored under key wwn_key
\* (current_run_aggregated_data[wwn_key]); 0 when there is none.
IndexOf(items, wwn_key) ==
    IF \E j \in 1..Len(items) : items[j].wwn = wwn_key
    THEN CHOOSE j \in 1..Len(items) : items[j].wwn = wwn_key
    ELSE 0

\* The loop over enumerate(wwn_order) after the gather: result i goes to the
\* record of wwn_order[i].  It ends at the first call that raises.
\* A loop that reads the results from the other end of the list.
RECURSIVE ReduceLoopFromTheEnd(_, _, _, _)
ReduceLoopFromTheEnd(order, results, i, acc) ==
    IF i > Len(order) THEN acc
    ELSE LET wwn_key == order[i]
             j == IndexOf(acc.items, wwn_key)
             k == Len(order) + 1 - i
         IN IF j = 0 \/ k > Len(results)
            THEN [acc EXCEPT !.raised = TRUE,
                             !.cls = IF j = 0 THEN "KeyError" ELSE "IndexError"]
            ELSE LET r == ProcessDetailResults(wwn_key, results[k], acc.items[j])
                     stored == [acc EXCEPT !.items[j] = r.target]
                 IN IF r.raised
                    THEN [stored EXCEPT !.raised = TRUE, !.cls = r.cls]
                    ELSE ReduceLoopFromTheEnd(order, results, i + 1, stored)

RECURSIVE ReduceLoop(_, _, _, _)
ReduceLoop(order, results, i, acc) ==
    IF i > Len(order) THEN acc
    ELSE LET wwn_key == order[i]
             j == IndexOf(acc.items, wwn_key)
         IN IF j = 0 \/ i > Len(results)
            THEN [acc EXCEPT !.raised = TRUE,
                             !.cls = IF j = 0 THEN "KeyError" ELSE "IndexError"]
            ELSE LET r == ProcessDetailResults(wwn_key, results[i], acc.items[j])
                     stored == [acc EXCEPT !.items[j] = r.target]
                 IN IF r.raised
                    THEN [stored EXCEPT !.raised = TRUE, !.cls = r.cls]
                    ELSE ReduceLoop(order, results, i + 1, stored)

\* _raise_update_failed: the UpdateFailed raised, chained to its cause.
RaiseUpdateFailed(message, error) ==
    [t |-> "UpdateFailed", msg |-> message, cause |-> error]

NoException == [t |-> "", msg |-> "", cause |-> ""]

\* Except clauses of which the one for ScrutinyApiError only logs.
ExceptClauseSwallowsApiError(cls) ==
    IF cls = "ScrutinyApiConnectionError"
    THEN [raised |-> TRUE,
          exc |-> RaiseUpdateFailed(
                     "Connection error during Scrutiny data update cycle", cls)]
    ELSE IF IsScrutinyApiError(cls)
    THEN [raised |-> FALSE, exc |-> NoException]
    ELSE [raised |-> TRUE,
          exc |-> RaiseUpdateFailed(
                     "An unexpected error occurred during Scrutiny data update", cls)]

\* Except clauses in which the one for ScrutinyApiError comes first: it also
\* takes its subclass ScrutinyApiConnectionError.
ExceptClauseApiErrorFirst(cls) ==
    IF IsScrutinyApiError(cls)
    THEN [raised |-> TRUE,
          exc |-> RaiseUpdateFailed(
                     "API error during Scrutiny data update cycle", cls)]
    ELSE [raised |-> TRUE,
          exc |-> RaiseUpdateFailed(
                     "An unexpected error occurred during Scrutiny data update", cls)]

\* The except clauses of _async_update_data, tried in their order, for an
\* exception of class cls leaving the try block.
ExceptClause(cls) ==
    IF cls = "ScrutinyApiConnectionError"
    THEN [raised |-> TRUE,
          exc |-> RaiseUpdateFailed(
                     "Connection error during Scrutiny data update cycle", cls)]
    ELSE IF IsScrutinyApiError(cls)
    THEN [raised |-> TRUE,
          exc |-> RaiseUpdateFailed(
                     "API error during Scrutiny data update cycle", cls)]
    ELSE [raised |-> TRUE,
          exc |-> RaiseUpdateFailed(
                     "An unexpected error occurred during Scrutiny data update", cls)]

\* A gather without return_exceptions=True: the first exception leaves it.
GatherPropagatesFirstException(result) == result.t = "exc"

\* Whether the gather lets the exception of one detail task leave the await
\* while the others still run: with return_exceptions=True it never does, the
\* exception is one more result.
GatherPropagates(result) == FALSE

\* A cycle that clears and refills the mapping it published.
CycleDictReusesPublished(fresh, published) == published

\* The object the cycle builds its mapping in: a new dict, never the one
\* self.aggregated_disk_data refers to.
CycleDict(fresh, published) == fresh

\* The end of _async_update_data for a try block that raised an exception of
\* class tried.cls or ran to its end: the UpdateFailed it raises, or the
\* mapping it stores in self.aggregated_disk_data and returns.
UpdateDataOutcome(tried, current, aggregated) ==
    LET handled == IF tried.raised THEN ExceptClause(tried.cls)
                   ELSE [raised |-> FALSE, exc |-> NoException]
    IN IF handled.raised
       THEN [raised |-> TRUE, exc |-> handled.exc, ret |-> aggregated,
             aggregated_disk_data |-> aggregated]
       ELSE [raised |-> FALSE, exc |-> NoException, ret |-> current,
             aggregated_disk_data |-> current]

\* ------------------------------------------- framework (base class)
\* No mapping: the value of coordinator.data before the first successful
\* refresh.
NoneRef == 0 - 1

\* async_refresh of the base class around _async_update_data: an UpdateFailed
\* is recorded and clears the success flag, leaving data as it was; a
\* returned mapping becomes data and sets the flag.
\* An async_refresh that leaves the success flag alone when the update fails.
AsyncRefreshOutcomeKeepsFlag(result, old_data, old_exception) ==
    IF result.raised
    THEN [data |-> old_data, last_update_success |-> last_update_success,
          last_exception |-> result.exc, raises |-> FALSE]
    ELSE [data |-> result.ret, last_update_success |-> TRUE,
          last_exception |-> old_exception, raises |-> FALSE]

AsyncRefreshOutcome(result, old_data, old_exception) ==
    IF result.raised
    THEN [data |-> old_data, last_update_success |-> FALSE,
          last_exception |-> result.exc, raises |-> FALSE]
    ELSE [data |-> result.ret, last_update_success |-> TRUE,
          last_exception |-> old_exception, raises |-> FALSE]

\* ------------------------------------------------ main disk sensor
\* Keys of an aggregated record and of the mappings in it (const.py).
KEY_SUMMARY_DEVICE == "summary_device"
KEY_SUMMARY_SMART == "summary_smart"
KEY_DETAILS_DEVICE == "details_device"
KEY_DETAILS_SMART_LATEST == "details_smart_latest"
KEY_DETAILS_METADATA == "details_smart_attributes_metadata"
ATTR_CAPACITY == "capacity"
ATTR_SUMMARY_DEVICE_STATUS == "device_status"
ATTR_TEMPERATURE == "temp"
ATTR_POWER_ON_HOURS == "power_on_hours"
ATTR_POWER_CYCLE_COUNT == "power_cycle_count"
ATTR_SMART_OVERALL_STATUS == "Status"

\* The keys of MAIN_DISK_SENSOR_DESCRIPTIONS.
MainDiskSensorKeys ==
    {ATTR_TEMPERATURE, ATTR_POWER_ON_HOURS, ATTR_SUMMARY_DEVICE_STATUS,
     ATTR_CAPACITY, ATTR_POWER_CYCLE_COUNT, ATTR_SMART_OVERALL_STATUS}

\* A value found in a record or held as native value: None, a number (capacity
\* in gigabytes is held in hundredths) or a string.
NativeNone == [t |-> "none", n |-> 0, s |-> ""]
Num(n) == [t |-> "number", n |-> n, s |-> ""]
Text(s) == [t |-> "str", n |-> 0, s |-> s]

\* A dict is a function from its keys; d.get(key, default).
EmptyDict == [key \in {} |-> NativeNone]
Get(d, key, default) == IF key \in DOMAIN d THEN d[key] ELSE default

SCRUTINY_DEVICE_SUMMARY_STATUS_UNKNOWN == Text("Unknown Summary Status")
SCRUTINY_DEVICE_SUMMARY_STATUS_MAP ==
    (0 :> Text("Passed")) @@ (1 :> Text("Failed (S.M.A.R.T.)"))
    @@ (2 :> Text("Failed (Scrutiny)"))
ATTR_SMART_STATUS_UNKNOWN == Text("Unknown Attribute Status")
ATTR_SMART_STATUS_MAP ==
    (0 :> Text("Passed")) @@ (1 :> Text("Failed (S.M.A.R.T.)"))
    @@ (2 :> Text("Warning (Scrutiny)")) @@ (4 :> Text("Failed (Scrutiny)"))

\* round(capacity_bytes / (1024**3), 2), in hundredths of a gigabyte, for a
\* byte count that is a multiple of 1024.
GibiByte == 1073741824
CapacityGb(capacity_bytes) ==
    LET whole == capacity_bytes \div GibiByte
        rest == ((capacity_bytes % GibiByte) \div 1024) * 100
        floor == rest \div 1048576
        twice == 2 * (rest % 1048576)
        up == IF twice > 1048576 \/ (twice = 1048576 /\ floor % 2 = 1)
              THEN 1 ELSE 0
    IN Num(whole * 100 + floor + up)

\* ScrutinyMainDiskSensor.available: the coordinator's last update succeeded
\* (CoordinatorEntity.available), its data is not None, the sensor's WWN is a
\* key of it and the record has the summary-device key.  `and` evaluates no
\* further than its first false operand.
Available(sensor, coordinator) ==
    IF ~coordinator.last_update_success THEN FALSE
    ELSE IF ~coordinator.has_data THEN FALSE
    ELSE IF sensor.wwn \notin DOMAIN coordinator.data THEN FALSE
    ELSE KEY_SUMMARY_DEVICE \in DOMAIN coordinator.data[sensor.wwn]

\* The value _update_sensor_state finds for an available sensor, by its key.
ValueForKey(key, disk) ==
    LET summary_device_data == Get(disk, KEY_SUMMARY_DEVICE, EmptyDict)
        summary_smart_data == Get(disk, KEY_SUMMARY_SMART, EmptyDict)
        details_smart_latest == Get(disk, KEY_DETAILS_SMART_LATEST, EmptyDict)
    IN CASE key = ATTR_TEMPERATURE ->
              Get(details_smart_latest, ATTR_TEMPERATURE,
                  Get(summary_smart_data, ATTR_TEMPERATURE, NativeNone))
         [] key = ATTR_POWER_ON_HOURS ->
              Get(details_smart_latest, ATTR_POWER_ON_HOURS,
                  Get(summary_smart_data, ATTR_POWER_ON_HOURS, NativeNone))
         [] key = ATTR_SUMMARY_DEVICE_STATUS ->
              LET status_code == Get(summary_device_data,
                                     ATTR_SUMMARY_DEVICE_STATUS, NativeNone)
              IN IF status_code # NativeNone
                 THEN Get(SCRUTINY_DEVICE_SUMMARY_STATUS_MAP, status_code.n,
                          SCRUTINY_DEVICE_SUMMARY_STATUS_UNKNOWN)
                 ELSE SCRUTINY_DEVICE_SUMMARY_STATUS_UNKNOWN
         [] key = ATTR_CAPACITY ->
              LET capacity_bytes == Get(summary_device_data, ATTR_CAPACITY,
                                        NativeNone)
              IN IF capacity_bytes # NativeNone
                 THEN CapacityGb(capacity_bytes.n) ELSE NativeNone
         [] key = ATTR_POWER_CYCLE_COUNT ->
              Get(details_smart_latest, ATTR_POWER_CYCLE_COUNT, NativeNone)
         [] key = ATTR_SMART_OVERALL_STATUS ->
              LET status_code == Get(details_smart_latest,
                                     ATTR_SMART_OVERALL_STATUS, NativeNone)
              IN IF status_code # NativeNone
                 THEN Get(ATTR_SMART_STATUS_MAP, status_code.n,
                          ATTR_SMART_STATUS_UNKNOWN)
                 ELSE ATTR_SMART_STATUS_UNKNOWN
         [] OTHER -> NativeNone

\* An _update_sensor_state that leaves the value alone when the sensor is
\* unavailable.
UpdateSensorStateKeepsValue(sensor, coordinator) ==
    IF ~Available(sensor, coordinator)
    THEN sensor
    ELSE [sensor EXCEPT !.native_value =
             ValueForKey(sensor.key, coordinator.data[sensor.wwn])]

\* _update_sensor_state: None for an unavailable sensor, else the value its
\* key asks for.
UpdateSensorState(sensor, coordinator) ==
    IF ~Available(sensor, coordinator)
    THEN [sensor EXCEPT !.native_value = NativeNone]
    ELSE [sensor EXCEPT !.native_value =
             ValueForKey(sensor.key, coordinator.data[sensor.wwn])]

\* async_write_ha_state as the sensor calls it: one more write, of the
\* sensor's availability and native value at that moment.
AsyncWriteHaState(written, sensor, coordinator, had_value) ==
    [writes |-> written.writes + 1,
     available |-> Available(sensor, coordinator),
     native_value |-> sensor.native_value,
     had_value |-> had_value]

\* ScrutinyMainDiskSensor.__init__: the sensor of one disk and one key, its
\* value computed once from the coordinator as it is.
NewSensor(wwn, key, coordinator) ==
    UpdateSensorState([wwn |-> wwn, key |-> key, native_value |-> NativeNone],
                      coordinator)

\* A coordinator that has not refreshed yet.
FreshCoordinator ==
    [last_update_success |-> TRUE, has_data |-> FALSE, data |-> EmptyDict]

NothingWritten ==
    [writes |-> 0, available |-> FALSE, native_value |-> NativeNone,
     had_value |-> FALSE]

\* The sensor at rest: created on a coordinator without data, never updated.
EntityIdle ==
    /\ entity_coordinator = FreshCoordinator
    /\ entity = NewSensor("wwn1", ATTR_TEMPERATURE, FreshCoordinator)
    /\ ha_state = NothingWritten
    /\ entity_updates = 0
    /\ update_pending = FALSE

\* ------------------------------------------- SMART attribute sensor
ATTR_SMART_ATTRS == "attrs"
ATTR_ATTRIBUTE_ID == "attribute_id"
ATTR_NORMALIZED_VALUE == "value"
ATTR_THRESH == "thresh"
ATTR_WORST == "worst"
ATTR_RAW_VALUE == "raw_value"
ATTR_RAW_STRING == "raw_string"
ATTR_WHEN_FAILED == "when_failed"
ATTR_SMART_ATTRIBUTE_STATUS_CODE == "status"
ATTR_FAILURE_RATE == "failure_rate"
ATTR_STATUS_REASON == "status_reason"
ATTR_DISPLAY_NAME == "display_name"
ATTR_IDEAL_VALUE_DIRECTION == "ideal"
ATTR_IS_CRITICAL == "critical"
ATTR_DESCRIPTION == "description"

\* The data of one SMART attribute: a dict (f its items) or None.
AttrDict(f) == [t |-> "dict", f |-> f]
AttrNone == [t |-> "none", f |-> EmptyDict]

\* The value under KEY_DETAILS_SMART_LATEST: a dict, with or without an
\* "attrs" key whose value is a dict of attributes or something else, or a
\* value that is no dict.
LatestSmart(has_attrs, attrs_t, attrs) ==
    [t |-> "dict", has_attrs |-> has_attrs, attrs_t |-> attrs_t,
     attrs |-> attrs]
LatestSmartNone ==
    [t |-> "none", has_attrs |-> FALSE, attrs_t |-> "none",
     attrs |-> EmptyDict]

\* An aggregated record as far as the attribute sensor reads it.
SmartDisk(has_latest, latest) == [has_latest |-> has_latest, latest |-> latest]

\* ScrutinySmartAttributeSensor.available.
SmartAvailable(sensor, coordinator) ==
    IF ~(/\ coordinator.last_update_success
         /\ coordinator.has_data
         /\ sensor.wwn \in DOMAIN coordinator.data)
    THEN FALSE
    ELSE LET disk_agg_data == coordinator.data[sensor.wwn]
             latest_smart == IF disk_agg_data.has_latest
                             THEN disk_agg_data.latest ELSE LatestSmartNone
         IN IF latest_smart.t # "dict" THEN FALSE
            ELSE IF ~latest_smart.has_attrs \/ latest_smart.attrs_t # "dict"
            THEN FALSE
            ELSE sensor.attribute_id_str \in DOMAIN latest_smart.attrs

\* _get_current_attribute_data: None for an unavailable sensor, else the
\* value stored for the attribute.
GetCurrentAttributeData(sensor, coordinator) ==
    IF ~SmartAvailable(sensor, coordinator) THEN AttrNone
    ELSE coordinator.data[sensor.wwn].latest.attrs[sensor.attribute_id_str]

\* Keys of the extra state attributes, in the order of the literal.
ExtraAttributeKeys ==
    {ATTR_ATTRIBUTE_ID, "attribute_key_id", ATTR_RAW_VALUE, ATTR_RAW_STRING,
     ATTR_NORMALIZED_VALUE, ATTR_WORST, ATTR_THRESH, ATTR_WHEN_FAILED,
     ATTR_STATUS_REASON, ATTR_FAILURE_RATE, ATTR_DESCRIPTION,
     ATTR_IS_CRITICAL, ATTR_IDEAL_VALUE_DIRECTION, "attribute_display_name"}

\* The extra state attributes of an attribute, those that are None left out.
ExtraStateAttributes(sensor, current_attr_data) ==
    LET attributes ==
          [k \in ExtraAttributeKeys |->
             CASE k = "attribute_key_id" -> Text(sensor.attribute_id_str)
               [] k \in {ATTR_DESCRIPTION, ATTR_IS_CRITICAL,
                         ATTR_IDEAL_VALUE_DIRECTION} ->
                    Get(sensor.attribute_metadata, k, NativeNone)
               [] k = "attribute_display_name" ->
                    Get(sensor.attribute_metadata, ATTR_DISPLAY_NAME, NativeNone)
               [] OTHER -> Get(current_attr_data.f, k, NativeNone)]
    IN [k \in {x \in ExtraAttributeKeys : attributes[x] # NativeNone} |->
          attributes[k]]

\* _update_state_and_attributes: without (truthy) attribute data the value
\* is None and the attributes are empty; else the value is the attribute's
\* status by ATTR_SMART_STATUS_MAP.
UpdateStateAndAttributes(sensor, coordinator) ==
    LET current_attr_data == GetCurrentAttributeData(sensor, coordinator)
    IN IF current_attr_data.t = "none" \/ DOMAIN current_attr_data.f = {}
       THEN [sensor EXCEPT !.native_value = NativeNone,
                           !.extra_state_attributes = EmptyDict]
       ELSE LET status_code == Get(current_attr_data.f,
                                   ATTR_SMART_ATTRIBUTE_STATUS_CODE, NativeNone)
            IN [sensor EXCEPT
                  !.native_value =
                      IF status_code # NativeNone
                      THEN Get(ATTR_SMART_STATUS_MAP, status_code.n,
                               ATTR_SMART_STATUS_UNKNOWN)
                      ELSE ATTR_SMART_STATUS_UNKNOWN,
                  !.extra_state_attributes =
                      ExtraStateAttributes(sensor, current_attr_data)]

\* ScrutinySmartAttributeSensor._handle_coordinator_update: what the sensor
\* is afterwards, and how often async_write_ha_state was called.
SmartHandleCoordinatorUpdate(sensor, coordinator) ==
    IF ~SmartAvailable(sensor, coordinator)
    THEN IF sensor.native_value # NativeNone
         THEN [sensor |-> [sensor EXCEPT !.native_value = NativeNone,
                                         !.extra_state_attributes = EmptyDict],
               writes |-> 1]
         ELSE [sensor |-> sensor, writes |-> 0]
    ELSE [sensor |-> UpdateStateAndAttributes(sensor, coordinator),
          writes |-> 1]

\* ScrutinySmartAttributeSensor.__init__ (which reads coordinator.data, so
\* the coordinator has data).
NewSmartSensor(wwn, attribute_id_str, attribute_metadata, coordinator) ==
    UpdateStateAndAttributes(
        [wwn |-> wwn, attribute_id_str |-> attribute_id_str,
         attribute_metadata |-> attribute_metadata,
         native_value |-> NativeNone, extra_state_attributes |-> EmptyDict],
        coordinator)

\* A coordinator whose data is an empty mapping.
EmptyCoordinator ==
    [last_update_success |-> TRUE, has_data |-> TRUE, data |-> EmptyDict]

SmartNothingWritten(available) ==
    [writes |-> 0, last_writes |-> 0, before |-> available,
     after |-> available]

\* The attribute sensor at rest.
SmartIdle ==
    /\ smart_coordinator = EmptyCoordinator
    /\ smart_entity = NewSmartSensor("wwn1", "5", EmptyDict, EmptyCoordinator)
    /\ smart_ha_state = SmartNothingWritten(FALSE)
    /\ smart_updates = 0
    /\ smart_pending = FALSE

\* ------------------------------------------------- the config entry
\* A coordinator as __init__.py creates it: of setup `round`, without data.
NewHubCoordinator(round) ==
    [round |-> round, has_data |-> FALSE, wwns |-> {},
     last_update_success |-> TRUE]

NoHubCoordinator == NewHubCoordinator(0)

\* An update listener of the entry: the function registered and the setup
\* that registered it.
Listener(fn, round) == [fn |-> fn, round |-> round]

\* async_setup_entry up to its first await, the first refresh: the client
\* and the coordinator are created, the entry is not touched.
\* A setup that stores the coordinator in the entry before refreshing.
SetupStoresCoordinatorFirst(entry, round) ==
    [entry EXCEPT !.state = "first_refresh", !.runtime_data = round]

SetupToFirstRefresh(entry, round) ==
    [entry EXCEPT !.state = "first_refresh"]

\* async_setup_entry from the first refresh's return to the await of
\* async_forward_entry_setups: entry.runtime_data = coordinator (the hub
\* device is created in the same stretch).
SetupToForward(entry, round) ==
    [entry EXCEPT !.state = "forwarding", !.runtime_data = round]

\* The sensor platform's async_setup_entry: nothing when the coordinator's
\* data is falsy (None or empty), else the entities of every disk in it.
\* Entities are told apart by their disk only.
SensorAsyncSetupEntry(coordinator) ==
    IF ~coordinator.has_data \/ coordinator.wwns = {}
    THEN {}
    ELSE coordinator.wwns

\* async_setup_entry after the platforms are set up: the options listener is
\* added and its remover handed to async_on_unload; async_reload_entry is
\* added as a second listener, and its remover is dropped.
SetupAddsListeners(entry, round) ==
    [entry EXCEPT
       !.state = "loaded",
       !.update_listeners =
           @ \o <<Listener("async_options_update_listener", round),
                  Listener("async_reload_entry", round)>>,
       !.on_unload =
           Append(@, Listener("async_options_update_listener", round))]

\* The entry is unloaded (async_unload_entry unloads the platforms): the
\* on-unload callbacks run, each removing its listener.
UnloadEntry(entry) ==
    [entry EXCEPT
       !.state = "not_loaded",
       !.update_listeners =
           SelectSeq(@, LAMBDA l :
                        \A i \in 1..Len(entry.on_unload) : entry.on_unload[i] # l),
       !.on_unload = <<>>]

\* The entry's options change: every update listener is called, and each of
\* the two functions asks for one reload of the entry.
ReloadsAskedFor(entry) == Len(entry.update_listeners)

NoSetupCall ==
    [round |-> 0, refreshed |-> "pending", forwarded |-> FALSE,
     hub_created |-> FALSE, raised |-> FALSE]

NoReloads ==
    [setups |-> 0, refreshes |-> 0, changes |-> 0, asked |-> 0, pending |-> 0,
     unloads |-> 0]

\* A configured entry that has not been set up.
NewConfigEntry ==
    [state |-> "not_loaded", runtime_data |-> 0, options |-> 0,
     update_listeners |-> <<>>, on_unload |-> <<>>]

LifecycleIdle ==
    /\ config_entry = NewConfigEntry
    /\ hub_coordinator = NoHubCoordinator
    /\ device_registry = [hub |-> FALSE]
    /\ sensor_entities = {}
    /\ setup_call = NoSetupCall
    /\ reload_log = NoReloads

\* ------------------------------------------ config and options flow
CONF_HOST == "host"
CONF_PORT == "port"
CONF_SCAN_INTERVAL == "scan_interval"
DEFAULT_PORT == 8080
DEFAULT_SCAN_INTERVAL_MINUTES == 60

\* What a user submits: a dict of some of the three keys.  A validated
\* schema result: whether it is valid and, if so, the dict with defaults
\* filled in.
Invalid(path) == [valid |-> FALSE, path |-> path, value |-> EmptyDict]
Valid(value) == [valid |-> TRUE, path |-> "", value |-> value]

\* STEP_USER_DATA_SCHEMA: host is required, port is optional with default
\* DEFAULT_PORT, and no other key is allowed.
StepUserDataSchema(user_input) ==
    IF \E k \in DOMAIN user_input : k \notin {CONF_HOST, CONF_PORT}
    THEN Invalid(CHOOSE k \in DOMAIN user_input : k \notin {CONF_HOST, CONF_PORT})
    ELSE IF CONF_HOST \notin DOMAIN user_input THEN Invalid(CONF_HOST)
    ELSE Valid((CONF_HOST :> user_input[CONF_HOST])
               @@ (CONF_PORT :> Get(user_input, CONF_PORT, Num(DEFAULT_PORT))))

\* unique_id = f"{host}:{port}"
UniqueId(host, port) == <<host, ":", port>>

\* _abort_if_unique_id_configured: whether an entry with this unique id
\* exists.
\* A check that never finds an entry.
AbortIfUniqueIdConfiguredNever(unique_id, configured) == FALSE

AbortIfUniqueIdConfigured(unique_id, configured) ==
    \E i \in 1..Len(configured) : configured[i].unique_id = unique_id

\* The except clauses around the connection test: errors["base"] for the
\* class of the exception raised, tried in the order of the clauses.
\* Clauses that take a response failure for a connection failure.
ConnectionTestErrorsResponseAsConnection(cls) ==
    IF cls \in {"ScrutinyApiConnectionError", "ScrutinyApiResponseError"}
    THEN "cannot_connect"
    ELSE IF cls = "ScrutinyApiAuthError" THEN "invalid_auth"
    ELSE "unknown"

ConnectionTestErrors(cls) ==
    IF cls = "ScrutinyApiConnectionError" THEN "cannot_connect"
    ELSE IF cls = "ScrutinyApiResponseError" THEN "invalid_api_response"
    ELSE IF cls = "ScrutinyApiAuthError" THEN "invalid_auth"
    ELSE "unknown"

\* async_create_entry of the user step: the entry's title, unique id and
\* data.
CreatedEntry(host, port) ==
    [title |-> <<"Scrutiny (", host, ":", port, ")">>,
     unique_id |-> UniqueId(host, port),
     data |-> (CONF_HOST :> host) @@ (CONF_PORT :> port)]

NoFlow ==
    [st |-> "none", host |-> NativeNone, port |-> NativeNone, base |-> "",
     reason |-> "", invalid |-> "", submits |-> 0]

\* ScrutinyConfigFlowHandler defines no async_get_options_flow: asked for
\* the options flow of an entry, the handler answers as the base class does,
\* with UnknownHandler.
AsyncGetOptionsFlow == "UnknownHandler"

\* ScrutinyOptionsFlowHandler.async_step_init, from current_scan_interval on:
\* the scan interval the form is pre-filled with.
CurrentScanInterval(current_options, entry) ==
    Get(current_options, CONF_SCAN_INTERVAL,
        Get(entry.options, CONF_SCAN_INTERVAL,
            Get(entry.data, CONF_SCAN_INTERVAL,
                Num(DEFAULT_SCAN_INTERVAL_MINUTES))))

\* options_schema: scan_interval is optional with the current value as
\* default and must be an integer of at least 1; no other key is allowed.
OptionsSchema(user_input, current_scan_interval) ==
    IF \E k \in DOMAIN user_input : k # CONF_SCAN_INTERVAL
    THEN Invalid(CHOOSE k \in DOMAIN user_input : k # CONF_SCAN_INTERVAL)
    ELSE LET v == Get(user_input, CONF_SCAN_INTERVAL, current_scan_interval)
         IN IF v.t # "number" \/ v.n < 1 THEN Invalid(CONF_SCAN_INTERVAL)
            ELSE Valid((CONF_SCAN_INTERVAL :> v))

\* async_step_init with user input: the result (a created entry with the
\* validated input as data, or the form again with the errors) and the
\* handler's current_options afterwards.
AsyncStepInit(has_input, user_input, current_options, entry) ==
    LET current_scan_interval == CurrentScanInterval(current_options, entry)
        validated_input == OptionsSchema(user_input, current_scan_interval)
    IN IF ~has_input
       THEN [type |-> "form", errors |-> EmptyDict, data |-> EmptyDict,
             current_options |-> current_options]
       ELSE IF validated_input.valid
       THEN [type |-> "create_entry", errors |-> EmptyDict,
             data |-> validated_input.value,
             current_options |-> current_options]
       ELSE [type |-> "form",
             errors |-> (validated_input.path :> Text("invalid")),
             data |-> EmptyDict,
             current_options |-> user_input @@ current_options]

NoOptionsFlow ==
    [st |-> "none", via |-> "", raised |-> "", errors |-> EmptyDict,
     data |-> EmptyDict, current_options |-> EmptyDict, steps |-> 0]

\* The entry of the options flow tests: host, port and the default scan
\* interval as data, no options.
InitialOptionsEntry ==
    [data |-> (CONF_HOST :> Text("scrutiny.options.local"))
              @@ (CONF_PORT :> Num(8080))
              @@ (CONF_SCAN_INTERVAL :> Num(DEFAULT_SCAN_INTERVAL_MINUTES)),
     options |-> EmptyDict]

FlowIdle ==
    /\ flows = [f \in 1..MaxFlows |-> NoFlow]
    /\ entries = <<>>
    /\ options_flow = NoOptionsFlow
    /\ options_entry = InitialOptionsEntry

\* The parts modelled further down, at rest.
LaterIdle == SmartIdle /\ LifecycleIdle /\ FlowIdle

\* ------------------------------------------------- state machine
ObjectIds == 0..MaxCycles

PendingResult ==
    [t |-> "pending", cls |-> "", has_data |-> FALSE, data |-> NoData,
     has_metadata |-> FALSE, metadata |-> NoneVal]

NoSummary == [kind |-> "none", cls |-> "", mapping |-> <<>>]

\* What a reader of coordinator.data sees.
Exposed(ref, h) ==
    [is_none |-> ref = NoneRef, ref |-> ref,
     items |-> IF ref = NoneRef THEN <<>> ELSE h[ref]]

Snapshot == Exposed(data, heap)

\* The state after __init__: the base class has no data yet and counts the
\* (not yet attempted) update as successful; the subclass creates an empty
\* mapping of its own (object 0).
CoordinatorInit ==
    /\ pc = "idle"
    /\ cycle = 0
    /\ heap = [o \in ObjectIds |-> <<>>]
    /\ data = NoneRef
    /\ aggregated_disk_data = 0
    /\ last_update_success = TRUE
    /\ last_exception = NoException
    /\ current_run_aggregated_data = 0
    /\ wwn_order = <<>>
    /\ detail_tasks = <<>>
    /\ detail_results = <<>>
    /\ summary_data = NoSummary
    /\ summary_inflight = 0
    /\ summary_calls = 0
    /\ detail_calls = <<>>
    /\ completion_order = <<>>
    /\ prev_data = Exposed(NoneRef, [o \in ObjectIds |-> <<>>])
    /\ coalesced = FALSE
    /\ last_cycle = [done |-> FALSE, succeeded |-> FALSE, raises |-> FALSE,
                     summary |-> NoSummary]

\* The reducer at rest: no call made, on a fresh record.
ReducerIdle ==
    /\ reducer_initial = NewRecord("wwn1", SummaryInfo("wwn1", 1))
    /\ reducer_response = PendingResult
    /\ reducer_target = reducer_initial
    /\ reducer_first = reducer_initial
    /\ reducer_raised = ""
    /\ reducer_calls = 0

\* The API client at rest: no call made.
NoApiCall ==
    [kind |-> "none", wwn |-> "", url |-> <<>>, st |-> "idle",
     exchange |-> Exchange("", 0, "", "", NoBody),
     request |-> [raised |-> FALSE, cls |-> ""],
     result |-> ApiReturnsPayload(NoBody)]

ApiIdle == api_calls = [c \in 1..MaxApiCalls |-> NoApiCall]

Init == CoordinatorInit /\ ReducerIdle /\ ApiIdle /\ EntityIdle /\ LaterIdle

\* No single-flight: a trigger starts a cycle whatever is running.
RefreshAlways == TRUE

\* Single-flight (framework): a refresh starts only when none is running.
RefreshAllowed == pc = "idle"

\* A periodic tick or an on-demand request starts a cycle: _async_update_data
\* runs up to its first await, the summary call.  Objects nothing refers to
\* any more are collected.
RefreshTrigger ==
    /\ RefreshAllowed
    /\ cycle < MaxCycles
    /\ LET fresh == cycle + 1
           ref == CycleDict(fresh, aggregated_disk_data)
       IN /\ cycle' = fresh
          /\ current_run_aggregated_data' = ref
          /\ heap' = [o \in ObjectIds |->
                        IF o # ref /\ o \in {data, aggregated_disk_data}
                        THEN heap[o] ELSE <<>>]
    /\ pc' = "summary"
    /\ wwn_order' = <<>>
    /\ detail_tasks' = <<>>
    /\ detail_results' = <<>>
    /\ summary_data' = [NoSummary EXCEPT !.kind = "pending"]
    /\ summary_inflight' = summary_inflight + 1
    /\ summary_calls' = 1
    /\ detail_calls' = <<>>
    /\ completion_order' = <<>>
    /\ prev_data' = Snapshot
    /\ coalesced' = FALSE
    /\ UNCHANGED <<data, aggregated_disk_data, last_update_success,
                   last_exception, last_cycle>>
    /\ UNCHANGED unit_vars

\* A trigger that arrives while a cycle runs starts nothing and leaves
\* nothing behind for later.
TriggerWhileRefreshing ==
    /\ ~RefreshAllowed
    /\ ~coalesced
    /\ coalesced' = TRUE
    /\ UNCHANGED <<pc, cycle, heap, data, aggregated_disk_data,
                   last_update_success, last_exception,
                   current_run_aggregated_data, wwn_order, detail_tasks,
                   detail_results, summary_data, summary_inflight,
                   summary_calls, detail_calls, completion_order, prev_data,
                   last_cycle>>
    /\ UNCHANGED unit_vars

\* The cycle ends: _async_update_data raises UpdateFailed or returns the
\* cycle's mapping, and async_refresh records the one or the other.
EndCycle(tried) ==
    LET result == UpdateDataOutcome(tried, current_run_aggregated_data,
                                    aggregated_disk_data)
        after == AsyncRefreshOutcome(result, data, last_exception)
    IN /\ aggregated_disk_data' = result.aggregated_disk_data
       /\ data' = after.data
       /\ last_update_success' = after.last_update_success
       /\ last_exception' = after.last_exception
       /\ last_cycle' = [done |-> TRUE,
                         succeeded |-> after.last_update_success,
                         raises |-> after.raises,
                         summary |-> summary_data']
       /\ pc' = "idle"

NotRaised == [raised |-> FALSE, cls |-> ""]
Raised(cls) == [raised |-> TRUE, cls |-> cls]

\* The summary call ends in `summary`: the try block runs on to the gather.
\* If it raises, or if the loop leaves no detail task, the cycle ends in the
\* same step; otherwise the gather starts every detail task and the cycle
\* awaits it.
SummaryEnds(summary) ==
    /\ pc = "summary"
    /\ summary_inflight' = summary_inflight - 1
    /\ summary_data' = summary
    /\ LET loop == TryBlockToGather(summary)
       IN /\ heap' = [heap EXCEPT ![current_run_aggregated_data] = loop.items]
          /\ wwn_order' = loop.wwn_order
          /\ detail_results' = [i \in 1..Len(loop.detail_tasks) |-> PendingResult]
          /\ IF loop.raised
             THEN /\ detail_tasks' = [i \in 1..Len(loop.detail_tasks) |->
                                        [wwn |-> loop.detail_tasks[i], st |-> "created"]]
                  /\ detail_calls' = <<>>
                  /\ EndCycle(Raised(loop.cls))
             ELSE IF loop.detail_tasks = <<>>
             THEN /\ detail_tasks' = <<>>
                  /\ detail_calls' = <<>>
                  /\ EndCycle(NotRaised)
             ELSE /\ detail_tasks' = [i \in 1..Len(loop.detail_tasks) |->
                                        [wwn |-> loop.detail_tasks[i], st |-> "running"]]
                  /\ detail_calls' = loop.detail_tasks
                  /\ pc' = "gather"
                  /\ UNCHANGED <<data, aggregated_disk_data,
                                 last_update_success, last_exception,
                                 last_cycle>>
    /\ UNCHANGED <<cycle, current_run_aggregated_data, summary_calls,
                   completion_order, prev_data, coalesced>>
    /\ UNCHANGED unit_vars

\* The summary call raises an exception of class cls.
SummaryRaises(cls) ==
    SummaryEnds([kind |-> "raised", cls |-> cls, mapping |-> <<>>])

\* The summary call returns a value that is no mapping.
SummaryReturnsNotADict ==
    SummaryEnds([kind |-> "not_a_dict", cls |-> "", mapping |-> <<>>])

\* The summary call returns a mapping.
SummaryReturns(mapping) ==
    SummaryEnds([kind |-> "mapping", cls |-> "", mapping |-> mapping])

\* The detail call of task i ends, with a payload or an exception: the gather
\* keeps the outcome at the task's position.
DetailCompletes(i, outcome) ==
    /\ pc = "gather"
    /\ i \in 1..Len(detail_tasks)
    /\ detail_tasks[i].st = "running"
    /\ detail_tasks' = [detail_tasks EXCEPT ![i].st = "done"]
    /\ detail_results' = [detail_results EXCEPT ![i] = outcome]
    /\ completion_order' = Append(completion_order, detail_tasks[i].wwn)
    /\ UNCHANGED <<cycle, heap, current_run_aggregated_data, wwn_order,
                   summary_data, summary_inflight, summary_calls,
                   detail_calls, prev_data, coalesced>>
    /\ UNCHANGED unit_vars
    /\ IF GatherPropagates(outcome)
       THEN EndCycle(Raised(outcome.cls))
       ELSE UNCHANGED <<pc, data, aggregated_disk_data, last_update_success,
                        last_exception, last_cycle>>

\* A gather that returns only when every task is done and none has raised.
AllDoneAndNoneRaised ==
    \A i \in 1..Len(detail_tasks) :
        detail_tasks[i].st = "done" /\ detail_results[i].t # "exc"

AllDone == \A i \in 1..Len(detail_tasks) : detail_tasks[i].st = "done"

\* Every detail task is done: the gather returns the list of results, the
\* reduce loop fills the cycle's mapping, and the cycle ends.
GatherReturns ==
    /\ pc = "gather"
    /\ AllDone
    /\ UNCHANGED <<cycle, current_run_aggregated_data, wwn_order,
                   detail_tasks, detail_results, summary_data,
                   summary_inflight, summary_calls, detail_calls,
                   completion_order, prev_data, coalesced>>
    /\ UNCHANGED unit_vars
    /\ LET loop == ReduceLoop(wwn_order, detail_results, 1,
                              [raised |-> FALSE, cls |-> "",
                               items |-> heap[current_run_aggregated_data]])
       IN /\ heap' = [heap EXCEPT ![current_run_aggregated_data] = loop.items]
          /\ EndCycle([raised |-> loop.raised, cls |-> loop.cls])

Next ==
    \/ RefreshTrigger
    \/ TriggerWhileRefreshing
    \/ /\ pc = "summary"
       /\ \E cls \in SummaryExceptions : SummaryRaises(cls)
    \/ SummaryReturnsNotADict
    \/ /\ pc = "summary"
       /\ \E mapping \in SummaryMappings(cycle) : SummaryReturns(mapping)
    \/ /\ pc = "gather"
       /\ \E i \in 1..Len(detail_tasks) :
             \E outcome \in DetailOutcomes(detail_tasks[i].wwn, cycle) :
                DetailCompletes(i, outcome)
    \/ GatherReturns

Spec == Init /\ [][Next]_vars

\* The cycle when every HTTP call ends: the summary call returns or raises
\* (each call has its own timeout), every detail call that was started
\* returns or raises, and the event loop resumes the cycle once the gather
\* has every outcome (from the gather with every task done the only step
\* that changes pc is GatherReturns).  Nothing makes a new cycle start.
SummaryCallEnds ==
    /\ pc = "summary"
    /\ \/ \E cls \in SummaryExceptions : SummaryRaises(cls)
       \/ SummaryReturnsNotADict
       \/ \E mapping \in SummaryMappings(cycle) : SummaryReturns(mapping)

DetailCallEnds(i) ==
    /\ pc = "gather"
    /\ i \in 1..Len(detail_tasks)
    /\ \E outcome \in DetailOutcomes(detail_tasks[i].wwn, cycle) :
          DetailCompletes(i, outcome)

GatherResumes == pc = "gather" /\ AllDone /\ pc' = "idle"

FairSpec ==
    /\ Spec
    /\ WF_vars(SummaryCallEnds)
    /\ \A i \in 1..Cardinality(WWNS) : WF_vars(DetailCallEnds(i))
    /\ WF_pc(GatherResumes)

\* ------------------------------------------- the reducer on its own
\* Exceptions a detail result can be (isinstance(x, Exception)).
ReducerExceptions == ScrutinyApiErrors \cup {"ValueError"}

\* Values of the "smart_results" key when it is a list.
ReducerSmartResults ==
    {<<>>,
     <<MapVal("smart_result", "wwn1", 1)>>,
     <<MapVal("smart_result", "wwn1", 1), MapVal("smart_result", "wwn1", 0)>>,
     <<EmptyMap>>, <<NoneVal>>, <<StrVal>>}

\* Values of the "data" key: null, or a mapping with or without "device"
\* (a mapping or null) and with or without "smart_results" (a list, or a
\* value that is no list).
ReducerDataValues ==
    {NoData} \cup
    {[t |-> "dict", has_device |-> dev.has, device |-> dev.v,
      has_smart_results |-> sm.has, smart_results_is_list |-> sm.is_list,
      smart_results |-> sm.v] :
        dev \in {[has |-> FALSE, v |-> NoneVal], [has |-> TRUE, v |-> NoneVal],
                 [has |-> TRUE, v |-> MapVal("details_device", "wwn1", 1)]},
        sm \in {[has |-> FALSE, is_list |-> FALSE, v |-> <<>>],
                [has |-> TRUE, is_list |-> FALSE, v |-> <<>>]}
               \cup {[has |-> TRUE, is_list |-> TRUE, v |-> l] :
                        l \in ReducerSmartResults}}

\* The detail results: an exception, a value that is neither exception nor
\* mapping, or a mapping with or without "data" and "metadata".
ReducerResponses ==
    {ExcResult(cls) : cls \in ReducerExceptions} \cup {OtherResult} \cup
    {[t |-> "dict", cls |-> "", has_data |-> d.has, data |-> d.v,
      has_metadata |-> m.has, metadata |-> m.v] :
        d \in {[has |-> FALSE, v |-> NoData]}
               \cup {[has |-> TRUE, v |-> v] : v \in ReducerDataValues},
        m \in {[has |-> FALSE, v |-> NoneVal], [has |-> TRUE, v |-> NoneVal],
               [has |-> TRUE, v |-> MapVal("metadata", "wwn1", 1)]}}

\* The records: as the summary loop creates them, or with the detail fields
\* an earlier reduction left.
ReducerTargets ==
    LET fresh == {NewRecord("wwn1", info) :
                    info \in {SummaryInfo("wwn1", 1), SummaryInfoNoSmart("wwn1", 1)}}
    IN fresh \cup
       {[r EXCEPT !.details_device = MapVal("details_device", "wwn1", 0),
                  !.details_smart_latest = MapVal("smart_result", "wwn1", 0),
                  !.details_metadata = MapVal("metadata", "wwn1", 0)] :
          r \in fresh}

ReducerInit ==
    /\ CoordinatorInit
    /\ reducer_initial \in ReducerTargets
    /\ reducer_response \in ReducerResponses
    /\ reducer_target = reducer_initial
    /\ reducer_first = reducer_initial
    /\ reducer_raised = ""
    /\ reducer_calls = 0
    /\ ApiIdle
    /\ EntityIdle
    /\ LaterIdle

\* One call of _process_detail_results on the record, with the same result.
ProcessDetailResultsCall ==
    /\ reducer_calls < MaxReducerCalls
    /\ LET r == ProcessDetailResults(reducer_target.wwn, reducer_response,
                                     reducer_target)
       IN /\ reducer_target' = r.target
          /\ reducer_raised' = IF r.raised THEN r.cls ELSE reducer_raised
          /\ reducer_first' = IF reducer_calls = 0 THEN r.target ELSE reducer_first
    /\ reducer_calls' = reducer_calls + 1
    /\ UNCHANGED <<reducer_initial, reducer_response>>
    /\ UNCHANGED coordinator_vars
    /\ UNCHANGED api_vars
    /\ UNCHANGED <<entity_vars, later_vars>>

ReducerNext == ProcessDetailResultsCall

ReducerSpec == ReducerInit /\ [][ReducerNext]_vars

\* ------------------------------------------ the API client on its own
ApiInit ==
    CoordinatorInit /\ ReducerIdle /\ ApiIdle /\ EntityIdle /\ LaterIdle

\* async_get_summary is called: it asks _request for "summary".
AsyncGetSummaryStarts(c) ==
    /\ api_calls[c].st = "idle"
    /\ \A b \in 1..(c - 1) : api_calls[b].st # "idle"
    /\ api_calls' = [api_calls EXCEPT
                       ![c] = [@ EXCEPT !.kind = "summary",
                                        !.url = RequestUrl(SummaryEndpoint),
                                        !.st = "inflight"]]
    /\ UNCHANGED <<coordinator_vars, reducer_vars, entity_vars, later_vars>>

\* async_get_device_details(wwn) is called: it asks _request for
\* device/{wwn}/details.
AsyncGetDeviceDetailsStarts(c, wwn) ==
    /\ api_calls[c].st = "idle"
    /\ \A b \in 1..(c - 1) : api_calls[b].st # "idle"
    /\ api_calls' = [api_calls EXCEPT
                       ![c] = [@ EXCEPT !.kind = "details",
                                        !.wwn = wwn,
                                        !.url = RequestUrl(DetailsEndpoint(wwn)),
                                        !.st = "inflight"]]
    /\ UNCHANGED <<coordinator_vars, reducer_vars, entity_vars, later_vars>>

\* The HTTP exchange of call c ends and the call returns or raises.
ApiCallEnds(c, exchange) ==
    /\ api_calls[c].st = "inflight"
    /\ api_calls' = [api_calls EXCEPT
                       ![c] = [@ EXCEPT
                                 !.st = "done",
                                 !.exchange = exchange,
                                 !.request = Request(exchange),
                                 !.result =
                                     IF api_calls[c].kind = "summary"
                                     THEN AsyncGetSummary(exchange)
                                     ELSE AsyncGetDeviceDetails(api_calls[c].wwn,
                                                                exchange)]]
    /\ UNCHANGED <<coordinator_vars, reducer_vars, entity_vars, later_vars>>

ApiNext ==
    \/ \E c \in 1..MaxApiCalls : AsyncGetSummaryStarts(c)
    \/ \E c \in 1..MaxApiCalls : \E wwn \in WWNS : AsyncGetDeviceDetailsStarts(c, wwn)
    \/ \E c \in 1..MaxApiCalls : \E exchange \in Exchanges : ApiCallEnds(c, exchange)

ApiSpec == ApiInit /\ [][ApiNext]_vars

\* ------------------------------------- the main disk sensor on its own
\* Aggregated records as a sensor can meet them: complete (two generations of
\* values), with the detail placeholders still empty, with empty summary
\* fields, with a temperature of None in the details, and without the
\* summary-device key.
DiskComplete(g) ==
    (KEY_SUMMARY_DEVICE :>
        ((ATTR_SUMMARY_DEVICE_STATUS :> Num(g - 1))
         @@ (ATTR_CAPACITY :> Num(GibiByte + (g - 1) * 536870912))))
    @@ (KEY_SUMMARY_SMART :>
        ((ATTR_TEMPERATURE :> Num(40)) @@ (ATTR_POWER_ON_HOURS :> Num(100))))
    @@ (KEY_DETAILS_DEVICE :> EmptyDict)
    @@ (KEY_DETAILS_SMART_LATEST :>
        ((ATTR_TEMPERATURE :> Num(30 + 5 * g))
         @@ (ATTR_POWER_ON_HOURS :> Num(100 + g))
         @@ (ATTR_POWER_CYCLE_COUNT :> Num(7))
         @@ (ATTR_SMART_OVERALL_STATUS :> Num(2 * g))))
    @@ (KEY_DETAILS_METADATA :> EmptyDict)

DiskSummaryOnly ==
    (KEY_SUMMARY_DEVICE :> (ATTR_SUMMARY_DEVICE_STATUS :> Num(5)))
    @@ (KEY_SUMMARY_SMART :>
        ((ATTR_TEMPERATURE :> Num(40)) @@ (ATTR_POWER_ON_HOURS :> Num(100))))
    @@ (KEY_DETAILS_DEVICE :> EmptyDict)
    @@ (KEY_DETAILS_SMART_LATEST :> EmptyDict)
    @@ (KEY_DETAILS_METADATA :> EmptyDict)

DiskBare ==
    (KEY_SUMMARY_DEVICE :> EmptyDict) @@ (KEY_SUMMARY_SMART :> EmptyDict)
    @@ (KEY_DETAILS_DEVICE :> EmptyDict)
    @@ (KEY_DETAILS_SMART_LATEST :> EmptyDict)
    @@ (KEY_DETAILS_METADATA :> EmptyDict)

DiskTemperatureNone ==
    (KEY_SUMMARY_DEVICE :> EmptyDict)
    @@ (KEY_SUMMARY_SMART :> (ATTR_TEMPERATURE :> Num(40)))
    @@ (KEY_DETAILS_SMART_LATEST :> (ATTR_TEMPERATURE :> NativeNone))

DiskWithoutSummaryDevice ==
    (KEY_SUMMARY_SMART :> (ATTR_TEMPERATURE :> Num(40)))
    @@ (KEY_DETAILS_SMART_LATEST :>
        ((ATTR_TEMPERATURE :> Num(35)) @@ (ATTR_POWER_CYCLE_COUNT :> Num(7))))

DiskRecords ==
    {DiskComplete(1), DiskComplete(2), DiskSummaryOnly, DiskBare,
     DiskTemperatureNone, DiskWithoutSummaryDevice}

\* The coordinator states the sensor is put in front of: data None, empty,
\* of one disk, or of both.
EntityCoordinators ==
    {[last_update_success |-> ok, has_data |-> FALSE, data |-> EmptyDict] :
        ok \in BOOLEAN}
    \cup {[last_update_success |-> ok, has_data |-> TRUE, data |-> d] :
            ok \in BOOLEAN,
            d \in {EmptyDict}
                  \cup {(w :> disk) : w \in WWNS, disk \in DiskRecords}
                  \cup {("wwn1" :> DiskComplete(1)) @@ ("wwn2" :> disk) :
                          disk \in {DiskComplete(2), DiskWithoutSummaryDevice}}}

\* A sensor of any disk and any key is created on any coordinator.
EntityInit ==
    /\ CoordinatorInit
    /\ ReducerIdle
    /\ ApiIdle
    /\ LaterIdle
    /\ entity_coordinator \in EntityCoordinators
    /\ \E wwn \in WWNS : \E key \in MainDiskSensorKeys :
          entity = NewSensor(wwn, key, entity_coordinator)
    /\ ha_state = NothingWritten
    /\ entity_updates = 0
    /\ update_pending = FALSE

\* The coordinator's flag and data change.
CoordinatorChanges(coordinator) ==
    /\ ~update_pending
    /\ entity_updates < MaxEntityUpdates
    /\ coordinator # entity_coordinator
    /\ entity_coordinator' = coordinator
    /\ update_pending' = TRUE
    /\ UNCHANGED <<entity, ha_state, entity_updates>>
    /\ UNCHANGED <<coordinator_vars, reducer_vars, api_vars, later_vars>>

\* _handle_coordinator_update: the value is computed again, then the state
\* is written.
HandleCoordinatorUpdate ==
    /\ entity_updates < MaxEntityUpdates
    /\ LET sensor == UpdateSensorState(entity, entity_coordinator)
       IN /\ entity' = sensor
          /\ ha_state' = AsyncWriteHaState(ha_state, sensor, entity_coordinator,
                                           entity.native_value # NativeNone)
    /\ entity_updates' = entity_updates + 1
    /\ update_pending' = FALSE
    /\ UNCHANGED entity_coordinator
    /\ UNCHANGED <<coordinator_vars, reducer_vars, api_vars, later_vars>>

EntityNext ==
    \/ \E coordinator \in EntityCoordinators : CoordinatorChanges(coordinator)
    \/ HandleCoordinatorUpdate

EntitySpec == EntityInit /\ [][EntityNext]_vars

\* ----------------------------- the SMART attribute sensor on its own
\* The data of attribute "194": two generations of values, a dict without
\* status, an empty dict and None.
SmartAttribute(g) ==
    AttrDict((ATTR_ATTRIBUTE_ID :> Num(194))
             @@ (ATTR_NORMALIZED_VALUE :> Num(72))
             @@ (ATTR_RAW_VALUE :> Text(IF g = 1 THEN "28" ELSE "35"))
             @@ (ATTR_SMART_ATTRIBUTE_STATUS_CODE :> Num(2 * (g - 1))))
SmartAttributeNoStatus == AttrDict((ATTR_ATTRIBUTE_ID :> Num(194)))
SmartAttributeEmpty == AttrDict(EmptyDict)

OtherAttribute ==
    AttrDict((ATTR_ATTRIBUTE_ID :> Num(5))
             @@ (ATTR_SMART_ATTRIBUTE_STATUS_CODE :> Num(0)))

\* Aggregated records: with the attribute (in its several forms) next to
\* another one, with the attribute gone, with the placeholder {} a failed
\* detail call leaves, with "attrs" that is no dict, with a latest snapshot
\* that is no dict, and without the key.
SmartDisks ==
    {SmartDisk(TRUE, LatestSmart(TRUE, "dict", ("5" :> OtherAttribute) @@ ("194" :> a))) :
        a \in {SmartAttribute(1), SmartAttribute(2), SmartAttributeNoStatus,
               SmartAttributeEmpty, AttrNone}}
    \cup {SmartDisk(TRUE, LatestSmart(TRUE, "dict", ("5" :> OtherAttribute))),
          SmartDisk(TRUE, LatestSmart(FALSE, "none", EmptyDict)),
          SmartDisk(TRUE, LatestSmart(TRUE, "list", EmptyDict)),
          SmartDisk(TRUE, LatestSmartNone),
          SmartDisk(FALSE, LatestSmartNone)}

\* The coordinator states the sensor is put in front of.
SmartCoordinators ==
    {[last_update_success |-> ok, has_data |-> FALSE, data |-> EmptyDict] :
        ok \in BOOLEAN}
    \cup {[last_update_success |-> ok, has_data |-> TRUE, data |-> d] :
            ok \in BOOLEAN,
            d \in {EmptyDict}
                  \cup {("wwn1" :> disk) : disk \in SmartDisks}
                  \cup {("wwn2" :> SmartDisk(TRUE,
                            LatestSmart(TRUE, "dict", ("194" :> SmartAttribute(1)))))}}

\* The metadata a sensor is created with.
SmartMetadata ==
    {EmptyDict,
     (ATTR_DISPLAY_NAME :> Text("Temperature Celsius"))
     @@ (ATTR_IS_CRITICAL :> Text("False"))}

\* The sensor of attribute "194" of disk wwn1 is created, as the platform
\* setup creates it: on a coordinator whose data holds, for the attribute, a
\* dict with its numeric id.
SmartInit ==
    /\ CoordinatorInit
    /\ ReducerIdle
    /\ ApiIdle
    /\ EntityIdle
    /\ LifecycleIdle
    /\ FlowIdle
    /\ smart_coordinator \in
          {c \in SmartCoordinators :
              /\ SmartAvailable(NewSmartSensor("wwn1", "194", EmptyDict, c), c)
              /\ ATTR_ATTRIBUTE_ID \in
                    DOMAIN c.data["wwn1"].latest.attrs["194"].f}
    /\ \E attribute_metadata \in SmartMetadata :
          smart_entity = NewSmartSensor("wwn1", "194", attribute_metadata,
                                        smart_coordinator)
    /\ smart_ha_state =
          SmartNothingWritten(SmartAvailable(smart_entity, smart_coordinator))
    /\ smart_updates = 0
    /\ smart_pending = FALSE

\* The coordinator's flag and data change.
SmartCoordinatorChanges(coordinator) ==
    /\ ~smart_pending
    /\ smart_updates < MaxSmartUpdates
    /\ coordinator # smart_coordinator
    /\ smart_coordinator' = coordinator
    /\ smart_pending' = TRUE
    /\ UNCHANGED <<smart_entity, smart_ha_state, smart_updates>>
    /\ UNCHANGED outside_smart_vars

\* The coordinator tells the sensor: _handle_coordinator_update runs.
SmartUpdate ==
    /\ smart_updates < MaxSmartUpdates
    /\ LET r == SmartHandleCoordinatorUpdate(smart_entity, smart_coordinator)
       IN /\ smart_entity' = r.sensor
          /\ smart_ha_state' =
                [writes |-> smart_ha_state.writes + r.writes,
                 last_writes |-> r.writes,
                 before |-> smart_ha_state.after,
                 after |-> SmartAvailable(r.sensor, smart_coordinator)]
    /\ smart_updates' = smart_updates + 1
    /\ smart_pending' = FALSE
    /\ UNCHANGED smart_coordinator
    /\ UNCHANGED outside_smart_vars

SmartNext ==
    \/ \E coordinator \in SmartCoordinators : SmartCoordinatorChanges(coordinator)
    \/ SmartUpdate

SmartSpec == SmartInit /\ [][SmartNext]_vars

\* ------------------------------------- the config entry's lifecycle
\* The snapshots a refresh can publish: the sets of disks.
EntryRosters == SUBSET WWNS

\* The scan intervals an options change can store, in minutes.
ScanIntervals == {15, 30}

LifecycleInit ==
    /\ CoordinatorInit
    /\ ReducerIdle
    /\ ApiIdle
    /\ EntityIdle
    /\ SmartIdle
    /\ LifecycleIdle
    /\ FlowIdle

\* Home Assistant sets the entry up (at start, after the config flow, or
\* again after a setup that raised): async_setup_entry runs to its first
\* await.
SetupStarts ==
    /\ config_entry.state \in {"not_loaded", "setup_retry"}
    /\ reload_log.setups < MaxSetups
    /\ LET round == reload_log.setups + 1
       IN /\ config_entry' = SetupToFirstRefresh(config_entry, round)
          /\ hub_coordinator' = NewHubCoordinator(round)
          /\ setup_call' = [NoSetupCall EXCEPT !.round = round]
          /\ reload_log' = [reload_log EXCEPT !.setups = round]
    /\ UNCHANGED <<device_registry, sensor_entities>>
    /\ UNCHANGED outside_lifecycle_vars

\* The first refresh fails: async_config_entry_first_refresh raises and so
\* does async_setup_entry.
FirstRefreshFails ==
    /\ config_entry.state = "first_refresh"
    /\ config_entry' = [config_entry EXCEPT !.state = "setup_retry"]
    /\ hub_coordinator' = [hub_coordinator EXCEPT !.last_update_success = FALSE]
    /\ setup_call' = [setup_call EXCEPT !.refreshed = "failed", !.raised = TRUE]
    /\ UNCHANGED <<device_registry, sensor_entities, reload_log>>
    /\ UNCHANGED outside_lifecycle_vars

\* The first refresh succeeds with a snapshot of these disks: the
\* coordinator is stored, the hub device created and the platform setup
\* forwarded.
FirstRefreshSucceeds(wwns) ==
    /\ config_entry.state = "first_refresh"
    /\ hub_coordinator' = [hub_coordinator EXCEPT !.has_data = TRUE,
                                                  !.wwns = wwns]
    /\ config_entry' = SetupToForward(config_entry, setup_call.round)
    /\ device_registry' = [hub |-> TRUE]
    /\ setup_call' = [setup_call EXCEPT !.refreshed = "ok",
                                        !.hub_created = TRUE,
                                        !.forwarded = TRUE]
    /\ UNCHANGED <<sensor_entities, reload_log>>
    /\ UNCHANGED outside_lifecycle_vars

\* The sensor platform is set up, async_forward_entry_setups returns, and
\* async_setup_entry adds its listeners and returns True.
PlatformSetUp ==
    /\ config_entry.state = "forwarding"
    /\ sensor_entities' = SensorAsyncSetupEntry(hub_coordinator)
    /\ config_entry' = SetupAddsListeners(config_entry, setup_call.round)
    /\ UNCHANGED <<hub_coordinator, device_registry, setup_call, reload_log>>
    /\ UNCHANGED outside_lifecycle_vars

\* A later refresh of the loaded entry's coordinator succeeds with a
\* snapshot of these disks.  No code runs for a disk that is new.
EntryRefreshSucceeds(wwns) ==
    /\ config_entry.state = "loaded"
    /\ reload_log.refreshes < MaxEntryRefreshes
    /\ hub_coordinator' = [hub_coordinator EXCEPT !.wwns = wwns,
                                                  !.last_update_success = TRUE]
    /\ reload_log' = [reload_log EXCEPT !.refreshes = @ + 1]
    /\ UNCHANGED <<config_entry, device_registry, sensor_entities, setup_call>>
    /\ UNCHANGED outside_lifecycle_vars

\* A later refresh fails: the snapshot stays.
EntryRefreshFails ==
    /\ config_entry.state = "loaded"
    /\ reload_log.refreshes < MaxEntryRefreshes
    /\ hub_coordinator' = [hub_coordinator EXCEPT !.last_update_success = FALSE]
    /\ reload_log' = [reload_log EXCEPT !.refreshes = @ + 1]
    /\ UNCHANGED <<config_entry, device_registry, sensor_entities, setup_call>>
    /\ UNCHANGED outside_lifecycle_vars

\* The options of the loaded entry change: its update listeners are called.
OptionsChange(scan_interval) ==
    /\ config_entry.state = "loaded"
    /\ reload_log.changes < MaxOptionsChanges
    /\ reload_log.pending = 0
    /\ scan_interval # config_entry.options
    /\ config_entry' = [config_entry EXCEPT !.options = scan_interval]
    /\ reload_log' = [reload_log EXCEPT
                        !.changes = @ + 1,
                        !.asked = ReloadsAskedFor(config_entry),
                        !.pending = ReloadsAskedFor(config_entry)]
    /\ UNCHANGED <<hub_coordinator, device_registry, sensor_entities,
                   setup_call>>
    /\ UNCHANGED outside_lifecycle_vars

\* One reload that was asked for runs: the entry is unloaded and set up
\* again, to the first await of the setup.
Reload ==
    /\ config_entry.state \in {"loaded", "setup_retry"}
    /\ reload_log.pending > 0
    /\ reload_log.setups < MaxSetups
    /\ LET round == reload_log.setups + 1
       IN /\ config_entry' = SetupToFirstRefresh(UnloadEntry(config_entry), round)
          /\ hub_coordinator' = NewHubCoordinator(round)
          /\ setup_call' = [NoSetupCall EXCEPT !.round = round]
          /\ reload_log' = [reload_log EXCEPT !.setups = round,
                                              !.pending = @ - 1,
                                              !.unloads = @ + 1]
    /\ sensor_entities' = {}
    /\ UNCHANGED device_registry
    /\ UNCHANGED outside_lifecycle_vars

\* The loaded entry is unloaded.
Unload ==
    /\ config_entry.state = "loaded"
    /\ reload_log.pending = 0
    /\ config_entry' = UnloadEntry(config_entry)
    /\ hub_coordinator' = NoHubCoordinator
    /\ sensor_entities' = {}
    /\ reload_log' = [reload_log EXCEPT !.unloads = @ + 1]
    /\ UNCHANGED <<device_registry, setup_call>>
    /\ UNCHANGED outside_lifecycle_vars

LifecycleNext ==
    \/ SetupStarts
    \/ FirstRefreshFails
    \/ \E wwns \in EntryRosters : FirstRefreshSucceeds(wwns)
    \/ PlatformSetUp
    \/ \E wwns \in EntryRosters : EntryRefreshSucceeds(wwns)
    \/ EntryRefreshFails
    \/ \E scan_interval \in ScanIntervals : OptionsChange(scan_interval)
    \/ Reload
    \/ Unload

LifecycleSpec == LifecycleInit /\ [][LifecycleNext]_vars

\* The same with every step that is due taken in the end: a setup that
\* started comes to its end, and refreshes and reloads that can run do.
LifecycleFairSpec ==
    /\ LifecycleSpec
    /\ WF_vars(SetupStarts)
    /\ WF_vars(FirstRefreshFails \/ \E wwns \in EntryRosters : FirstRefreshSucceeds(wwns))
    /\ WF_vars(PlatformSetUp)
    /\ WF_vars(EntryRefreshFails \/ \E wwns \in EntryRosters : EntryRefreshSucceeds(wwns))
    /\ WF_vars(Reload)

\* --------------------------------------- config flow and options flow
FlowHosts == {Text("scrutiny.test.local"), Text("scrutiny.defaults.local")}

\* What users submit in the user step: a host, with or without a port, with
\* or without a scan interval (30, or 0).
UserInputs ==
    {(CONF_HOST :> h) @@ p @@ s :
        h \in FlowHosts,
        p \in {EmptyDict, (CONF_PORT :> Num(DEFAULT_PORT)), (CONF_PORT :> Num(8088))},
        s \in {EmptyDict, (CONF_SCAN_INTERVAL :> Num(30)),
               (CONF_SCAN_INTERVAL :> Num(0))}}

\* What the connection test comes to: it returns, or async_get_summary
\* raises.
ConnectionTestOutcomes ==
    {"ok", "ScrutinyApiConnectionError", "ScrutinyApiResponseError",
     "ScrutinyApiAuthError", "ScrutinyApiError", "AttributeError"}

\* What users submit in the options step.
OptionsInputs ==
    {EmptyDict, (CONF_SCAN_INTERVAL :> Num(15)), (CONF_SCAN_INTERVAL :> Num(0))}

FlowInit ==
    /\ CoordinatorInit
    /\ ReducerIdle
    /\ ApiIdle
    /\ EntityIdle
    /\ SmartIdle
    /\ LifecycleIdle
    /\ FlowIdle

\* A user starts a config flow: async_step_user without input shows the
\* form, without errors.
FlowStarts(f) ==
    /\ flows[f].st = "none"
    /\ \A g \in 1..(f - 1) : flows[g].st # "none"
    /\ flows' = [flows EXCEPT ![f] = [@ EXCEPT !.st = "form"]]
    /\ UNCHANGED <<entries, options_flow, options_entry>>
    /\ UNCHANGED outside_flow_vars

\* Another unfinished flow has this unique id (async_set_unique_id refuses
\* a second one).  A flow keeps its unique id when its form is shown again.
AlreadyInProgress(f, unique_id) ==
    \E g \in 1..MaxFlows :
        /\ g # f
        /\ flows[g].st \in {"form", "testing"}
        /\ flows[g].host # NativeNone
        /\ UniqueId(flows[g].host, flows[g].port) = unique_id

\* The form of flow f is submitted.  Input the form's schema rejects does
\* not reach the step.  The step sets the unique id, aborts when it is
\* configured, and else starts the connection test.
FlowSubmit(f, user_input) ==
    /\ flows[f].st = "form"
    /\ flows[f].submits < MaxSubmits
    /\ LET checked == StepUserDataSchema(user_input)
           host == checked.value[CONF_HOST]
           port == Get(checked.value, CONF_PORT, Num(DEFAULT_PORT))
           unique_id == UniqueId(host, port)
           submitted == [flows[f] EXCEPT !.submits = @ + 1,
                                         !.base = "", !.reason = "",
                                         !.invalid = ""]
       IN flows' =
            [flows EXCEPT ![f] =
               IF ~checked.valid
               THEN [submitted EXCEPT !.invalid = checked.path]
               ELSE IF AlreadyInProgress(f, unique_id)
               THEN [submitted EXCEPT !.st = "aborted", !.host = host,
                                      !.port = port,
                                      !.reason = "already_in_progress"]
               ELSE IF AbortIfUniqueIdConfigured(unique_id, entries)
               THEN [submitted EXCEPT !.st = "aborted", !.host = host,
                                      !.port = port,
                                      !.reason = "already_configured"]
               ELSE [submitted EXCEPT !.st = "testing", !.host = host,
                                      !.port = port]]
    /\ UNCHANGED <<entries, options_flow, options_entry>>
    /\ UNCHANGED outside_flow_vars

\* The connection test of flow f ends: the entry is created, or the form is
\* shown again with the error of the exception.
ConnectionTestEnds(f, outcome) ==
    /\ flows[f].st = "testing"
    /\ IF outcome = "ok"
       THEN /\ flows' = [flows EXCEPT ![f] = [@ EXCEPT !.st = "created"]]
            /\ entries' = Append(entries, CreatedEntry(flows[f].host, flows[f].port))
       ELSE /\ flows' = [flows EXCEPT ![f] =
                           [@ EXCEPT !.st = "form",
                                     !.base = ConnectionTestErrors(outcome),
                                     !.reason = outcome]]
            /\ UNCHANGED entries
    /\ UNCHANGED <<options_flow, options_entry>>
    /\ UNCHANGED outside_flow_vars

\* The options flow of the entry is started through Home Assistant, which
\* asks the config flow handler for it.
OptionsFlowStarts ==
    /\ options_flow.st = "none"
    /\ options_flow' = [options_flow EXCEPT !.st = "raised", !.via = "manager",
                                            !.raised = AsyncGetOptionsFlow]
    /\ UNCHANGED <<flows, entries, options_entry>>
    /\ UNCHANGED outside_flow_vars

\* A ScrutinyOptionsFlowHandler is made for the entry and its step called
\* without input: the form.
OptionsHandlerMade ==
    /\ options_flow.st = "none"
    /\ LET r == AsyncStepInit(FALSE, EmptyDict, options_entry.options,
                              options_entry)
       IN options_flow' = [options_flow EXCEPT
                             !.st = r.type, !.via = "direct",
                             !.errors = r.errors,
                             !.current_options = r.current_options]
    /\ UNCHANGED <<flows, entries, options_entry>>
    /\ UNCHANGED outside_flow_vars

\* The step of that handler is called with input.
OptionsStep(user_input) ==
    /\ options_flow.st = "form"
    /\ options_flow.steps < MaxOptionsSteps
    /\ LET r == AsyncStepInit(TRUE, user_input, options_flow.current_options,
                              options_entry)
       IN options_flow' = [options_flow EXCEPT
                             !.st = r.type, !.errors = r.errors,
                             !.data = r.data,
                             !.current_options = r.current_options,
                             !.steps = @ + 1]
    /\ UNCHANGED <<flows, entries, options_entry>>
    /\ UNCHANGED outside_flow_vars

FlowNext ==
    \/ \E f \in 1..MaxFlows : FlowStarts(f)
    \/ \E f \in 1..MaxFlows : \E user_input \in UserInputs : FlowSubmit(f, user_input)
    \/ \E f \in 1..MaxFlows : \E outcome \in ConnectionTestOutcomes :
          ConnectionTestEnds(f, outcome)
    \/ OptionsFlowStarts
    \/ OptionsHandlerMade
    \/ \E user_input \in OptionsInputs : OptionsStep(user_input)

FlowSpec == FlowInit /\ [][FlowNext]_vars

\* ------------------------------------------------------------ claims
\* The keys of a mapping, in its iteration order.
Keys(items) == [i \in 1..Len(items) |-> items[i].wwn]

KeySet(items) == {items[i].wwn : i \in 1..Len(items)}

\* The roster of the cycle's summary response.
Roster == Keys(summary_data.mapping)

\* A cycle has run and ended.
CycleDone == pc = "idle" /\ cycle > 0

\* The summary call returned a mapping, and every value of it is a mapping.
SummaryWellFormed ==
    /\ summary_data.kind = "mapping"
    /\ \A i \in 1..Len(summary_data.mapping) : summary_data.mapping[i].info.t = "dict"

\* The summary call raised one of the three typed failures, or returned a
\* value that is no mapping.
SummaryAborted ==
    \/ summary_data.kind = "not_a_dict"
    \/ /\ summary_data.kind = "raised"
       /\ summary_data.cls \in {"ScrutinyApiConnectionError",
                                "ScrutinyApiAuthError",
                                "ScrutinyApiResponseError"}

\* The record stored under key w, and the result of the detail call for w.
RecordOf(items, w) == items[CHOOSE j \in 1..Len(items) : items[j].wwn = w]
ResultOf(w) ==
    detail_results[CHOOSE j \in 1..Len(detail_tasks) : detail_tasks[j].wwn = w]

\* How many detail calls the cycle started for device w.
DetailCallCount(w) == Cardinality({i \in 1..Len(detail_calls) : detail_calls[i] = w})

\* C1 (partial-failure isolation), for summaries whose values are all
\* mappings: when the summary call returned roster R, the cycle ends with
\* last_update_success true, the published mapping has exactly the keys R,
\* every device whose detail call raised has three empty detail fields and
\* its summary fields, and every other device has a populated detail section.
C1_PartialFailureIsolation ==
    (CycleDone /\ SummaryWellFormed) =>
        /\ last_update_success
        /\ Len(Snapshot.items) = Len(Roster)
        /\ KeySet(Snapshot.items) = KeySet(summary_data.mapping)
        /\ \A i \in 1..Len(summary_data.mapping) :
              LET w == summary_data.mapping[i].wwn
                  info == summary_data.mapping[i].info
                  rec == RecordOf(Snapshot.items, w)
              IN /\ rec.summary_device = (IF info.has_device THEN info.device ELSE EmptyMap)
                 /\ rec.summary_smart = (IF info.has_smart THEN info.smart ELSE EmptyMap)
                 /\ IF ResultOf(w).t = "exc"
                    THEN /\ rec.details_device = EmptyMap
                         /\ rec.details_smart_latest = EmptyMap
                         /\ rec.details_metadata = EmptyMap
                    ELSE /\ rec.details_device # EmptyMap
                         /\ rec.details_smart_latest # EmptyMap
                         /\ rec.details_metadata # EmptyMap

\* C2 (whole-cycle abort): after a cycle whose summary call raised a
\* connection, auth or response failure or returned a value that is no
\* mapping, a reader sees the very snapshot it saw before the cycle, and
\* last_update_success is false; whatever the cycles before it were.
C2_WholeCycleAbort ==
    (CycleDone /\ SummaryAborted) =>
        (Snapshot = prev_data /\ ~last_update_success)

\* A second cycle aborted by a connection failure, after a first one that
\* published devices.
C2_Witness ==
    /\ CycleDone /\ cycle > 1
    /\ summary_data.kind = "raised"
    /\ summary_data.cls = "ScrutinyApiConnectionError"
    /\ prev_data.items # <<>>
    /\ Snapshot = prev_data

\* C3 (single-flight): at most one summary call is in flight at any time; a
\* cycle starts only when none is running; and a trigger that arrives while a
\* cycle runs changes nothing of that cycle, starts no call and leaves no
\* cycle to run later.
C3_SingleFlight ==
    /\ [](summary_inflight <= 1)
    /\ [][cycle' # cycle => pc = "idle"]_vars
    /\ [][(~coalesced /\ coalesced') =>
            /\ pc # "idle"
            /\ UNCHANGED <<pc, cycle, heap, data, aggregated_disk_data,
                           last_update_success, last_exception,
                           current_run_aggregated_data, wwn_order,
                           detail_tasks, detail_results, summary_data,
                           summary_inflight, summary_calls, detail_calls>>]_vars
    /\ [][(pc # "idle" /\ pc' = "idle") => summary_inflight' = 0]_vars

\* A trigger has arrived while the cycle awaits its detail calls.
C3_Witness ==
    /\ pc = "gather"
    /\ coalesced
    /\ \E i \in 1..Len(detail_tasks) : detail_tasks[i].st = "running"

\* C4 (atomic publication): while a cycle runs a reader sees the snapshot it
\* saw when the cycle started; what a reader sees changes in one step only,
\* the end of a successful cycle, to a new object that holds the complete
\* mapping of that cycle, every detail task being done; in no other step is
\* the object a reader sees replaced or modified.
C4_AtomicPublication ==
    /\ [](pc # "idle" => Snapshot = prev_data)
    /\ [][\/ Exposed(data', heap') = Exposed(data, heap)
          \/ /\ pc # "idle" /\ pc' = "idle"
             /\ last_update_success'
             /\ data' = current_run_aggregated_data
             /\ data' # data
             /\ aggregated_disk_data' = data'
             /\ \A i \in 1..Len(detail_tasks) : detail_tasks[i].st = "done"
             /\ Keys(Exposed(data', heap').items) = wwn_order']_vars

\* A cycle awaits its detail calls, one of them done and one running, while
\* a reader sees the non-empty snapshot of the cycle before.
C4_Witness ==
    /\ pc = "gather"
    /\ prev_data.items # <<>>
    /\ Snapshot = prev_data
    /\ \E i, j \in 1..Len(detail_tasks) :
          detail_tasks[i].st = "done" /\ detail_tasks[j].st = "running"
    /\ heap[current_run_aggregated_data] # Snapshot.items

\* C5 (last good snapshot), for summaries whose values are all mappings:
\* after a cycle whose summary call succeeded the exposed snapshot is that
\* cycle's aggregation and last_update_success is true; after a cycle whose
\* summary call failed the snapshot is the one exposed before it and
\* last_update_success is false.
C5_SnapshotOfLastGoodSummary ==
    CycleDone =>
        /\ SummaryWellFormed =>
              /\ last_update_success
              /\ data = current_run_aggregated_data
        /\ summary_data.kind # "mapping" =>
              /\ ~last_update_success
              /\ Snapshot = prev_data

\* C6 (abort before the fan-out): in a cycle whose summary call raised or
\* returned a value that is no mapping, no detail call is created or started,
\* and the cycle has ended; whatever roster the cycles before had.
C6_NoDetailAfterSummaryFailure ==
    summary_data.kind \in {"raised", "not_a_dict"} =>
        /\ pc = "idle"
        /\ detail_calls = <<>>
        /\ detail_tasks = <<>>

\* A cycle aborted by a summary value that is no mapping, after a cycle that
\* published two devices.
C6_Witness ==
    /\ CycleDone
    /\ summary_data.kind = "not_a_dict"
    /\ Len(prev_data.items) = 2
    /\ detail_calls = <<>>

\* C7 (empty roster): a cycle whose summary call returned a mapping without
\* devices ends with the empty mapping of that cycle exposed,
\* last_update_success true and no detail call started.
C7_EmptyRoster ==
    (CycleDone /\ summary_data.kind = "mapping" /\ summary_data.mapping = <<>>) =>
        /\ ~Snapshot.is_none
        /\ Snapshot.items = <<>>
        /\ data = current_run_aggregated_data
        /\ last_update_success
        /\ detail_calls = <<>>

\* An empty summary has replaced a snapshot that had devices.
C7_Witness ==
    /\ CycleDone
    /\ summary_data.kind = "mapping" /\ summary_data.mapping = <<>>
    /\ prev_data.items # <<>>
    /\ Snapshot.items = <<>> /\ ~Snapshot.is_none

\* C8 (fan-out/fan-in barrier): a detail task runs only in a cycle whose
\* summary call has returned a mapping and while that cycle awaits the
\* gather, so the cycle neither publishes nor ends before every task it
\* started is done; and a running task can always end, whatever its siblings
\* came to.
C8_FanOutFanIn ==
    /\ pc = "summary" => (detail_calls = <<>> /\ detail_tasks = <<>>)
    /\ \A j \in 1..Len(detail_tasks) :
          detail_tasks[j].st = "running" =>
             /\ pc = "gather"
             /\ summary_inflight = 0
             /\ summary_data.kind = "mapping"
             /\ ENABLED DetailCompletes(j, FullPayload(detail_tasks[j].wwn, cycle))

\* One detail call has raised and its sibling is still running.
C8_Witness ==
    /\ pc = "gather"
    /\ \E i, j \in 1..Len(detail_tasks) :
          /\ detail_results[i].t = "exc"
          /\ detail_tasks[j].st = "running"

\* C9 (ordering): the published mapping of a cycle iterates its devices in
\* the order of the summary response, whatever the order in which the detail
\* calls ended.
C9_Ordering ==
    (CycleDone /\ last_update_success /\ summary_data.kind = "mapping") =>
        Keys(Snapshot.items) = Roster

\* The summary order was wwn2, wwn1; the detail calls ended in the order
\* wwn1, wwn2.
C9_Witness ==
    /\ CycleDone /\ last_update_success
    /\ Roster = <<"wwn2", "wwn1">>
    /\ completion_order = <<"wwn1", "wwn2">>
    /\ Keys(Snapshot.items) = <<"wwn2", "wwn1">>

\* Exactly one detail call for each device of the roster, none for another.
OneDetailCallPerDevice ==
    \A w \in WWNS :
        DetailCallCount(w) = (IF w \in KeySet(summary_data.mapping) THEN 1 ELSE 0)

\* C10 as claimed: every cycle issues one summary call, and a cycle whose
\* summary call returned roster R starts exactly one detail call for each
\* device of R and none for another.
C10_CallCountsAnyRoster ==
    /\ cycle > 0 => summary_calls = 1
    /\ (CycleDone /\ summary_data.kind = "mapping") => OneDetailCallPerDevice

\* C10, amended: every cycle issues one summary call, and a cycle whose
\* summary call returned a roster R whose values are all mappings starts
\* exactly one detail call for each device of R and none for another.
C10_CallCounts ==
    /\ cycle > 0 => summary_calls = 1
    /\ (pc # "summary" /\ SummaryWellFormed) => OneDetailCallPerDevice

\* A cycle with a roster of one device, after a cycle that published two.
C10_Witness ==
    /\ CycleDone
    /\ SummaryWellFormed
    /\ Len(Roster) = 1
    /\ Len(prev_data.items) = 2
    /\ Len(detail_calls) = 1

\* The exception that left the try block of an aborted cycle.
OriginalFailure ==
    IF summary_data.kind = "raised" THEN summary_data.cls
    ELSE IF summary_data.kind = "not_a_dict" THEN "ScrutinyApiResponseError"
    ELSE "AttributeError"

\* C11 (refresh-failed signal): after an aborted cycle async_refresh has
\* returned without raising and last_exception is one UpdateFailed whose cause
\* is the original failure; its message says connection error for a
\* ScrutinyApiConnectionError, API error for any other ScrutinyApiError and
\* unexpected error for any other exception; and last_exception is set only
\* by the step that ends an aborted cycle.
C11_RefreshFailedSignal ==
    /\ [](CycleDone /\ ~last_update_success =>
            /\ ~last_cycle.raises
            /\ last_exception.t = "UpdateFailed"
            /\ last_exception.cause = OriginalFailure
            /\ last_exception.msg =
                  (IF last_exception.cause = "ScrutinyApiConnectionError"
                   THEN "Connection error during Scrutiny data update cycle"
                   ELSE IF last_exception.cause \in
                              {"ScrutinyApiError", "ScrutinyApiAuthError",
                               "ScrutinyApiResponseError"}
                   THEN "API error during Scrutiny data update cycle"
                   ELSE "An unexpected error occurred during Scrutiny data update"))
    /\ [][last_exception' # last_exception =>
            (pc # "idle" /\ pc' = "idle" /\ ~last_update_success')]_vars

\* A cycle aborted by an authentication failure, reported as an API error.
C11_Witness ==
    /\ CycleDone /\ ~last_update_success
    /\ summary_data.kind = "raised"
    /\ last_exception.cause = "ScrutinyApiAuthError"
    /\ last_exception.msg = "API error during Scrutiny data update cycle"

\* C12 (the outcome depends on the summary only): a cycle whose summary call
\* returned a mapping of well-formed entries ends with last_update_success
\* true, whatever its detail calls raised or returned.
C12_OutcomeDependsOnSummaryOnly ==
    (CycleDone /\ SummaryWellFormed) => last_update_success

\* The cycle that ended last succeeded, the remote having reported no device.
LastCycleReportedNoDevices ==
    /\ last_cycle.done
    /\ last_cycle.succeeded
    /\ last_cycle.summary.kind = "mapping"
    /\ last_cycle.summary.mapping = <<>>

\* C13 as claimed: in every state, a snapshot without devices together with a
\* true success flag means that the cycle that ended last succeeded with no
\* device reported.
C13_ReadContractEveryState ==
    (Snapshot.items = <<>> /\ last_update_success) => LastCycleReportedNoDevices

\* C13, amended: once a first cycle has ended, a snapshot without devices
\* together with a true success flag means that the cycle that ended last
\* succeeded with no device reported, and a coordinator that has no mapping
\* yet has a false success flag; before the first cycle has ended there is no
\* mapping (None) and the success flag is true.
C13_ReadContract ==
    /\ (last_cycle.done /\ Snapshot.items = <<>> /\ last_update_success)
          => LastCycleReportedNoDevices
    /\ (last_cycle.done /\ Snapshot.is_none) => ~last_update_success
    /\ ~last_cycle.done => (Snapshot.is_none /\ last_update_success)

\* The second cycle is running after a first one that reported no device.
C13_Witness ==
    /\ pc = "summary" /\ cycle = 2
    /\ ~Snapshot.is_none /\ Snapshot.items = <<>>
    /\ last_update_success
    /\ LastCycleReportedNoDevices

\* The summary fields and the key of the reducer's record are the initial ones.
ReducerKeepsSummaryFields ==
    /\ reducer_target.wwn = reducer_initial.wwn
    /\ reducer_target.summary_device = reducer_initial.summary_device
    /\ reducer_target.summary_smart = reducer_initial.summary_smart

\* C14 (reducer, failure input): after a call with an exception as the detail
\* result the three detail fields of the record are empty mappings, no call
\* has raised, and the summary fields are the ones the record had.
C14_ReducerFailureInput ==
    (reducer_calls > 0 /\ reducer_response.t = "exc") =>
        /\ reducer_raised = ""
        /\ reducer_target.details_device = EmptyMap
        /\ reducer_target.details_smart_latest = EmptyMap
        /\ reducer_target.details_metadata = EmptyMap
        /\ ReducerKeepsSummaryFields

\* An exception has reset a record that had detail fields.
C14_Witness ==
    /\ reducer_calls = 1
    /\ reducer_response = ExcResult("ScrutinyApiConnectionError")
    /\ reducer_initial.details_device # EmptyMap
    /\ reducer_target.details_device = EmptyMap
    /\ reducer_target.summary_device = MapVal("device", "wwn1", 1)

\* A payload whose "data" is absent or a mapping has been reduced.
ReducedPayload ==
    /\ reducer_calls > 0
    /\ reducer_response.t = "dict"
    /\ (reducer_response.has_data => reducer_response.data.t = "dict")

\* The device and metadata fields of a reduced payload: data.device and the
\* top-level metadata as they are, the empty mapping for a missing key.
ReducedDeviceAndMetadata ==
    /\ reducer_raised = ""
    /\ reducer_target.details_device =
          (IF reducer_response.has_data /\ reducer_response.data.has_device
           THEN reducer_response.data.device ELSE EmptyMap)
    /\ reducer_target.details_metadata =
          (IF reducer_response.has_metadata
           THEN reducer_response.metadata ELSE EmptyMap)
    /\ ReducerKeepsSummaryFields

\* data.smart_results of the reducer's payload is a list.
SmartResultsIsList ==
    /\ reducer_response.has_data
    /\ reducer_response.data.has_smart_results
    /\ reducer_response.data.smart_results_is_list

\* C15 as claimed: the latest-snapshot field is element 0 of
\* data.smart_results whenever that is a non-empty list, and the empty mapping
\* when the list is empty or absent.
C15_ReducerPayloadAnyFirstElement ==
    ReducedPayload =>
        /\ ReducedDeviceAndMetadata
        /\ (SmartResultsIsList /\ Len(reducer_response.data.smart_results) > 0)
              => reducer_target.details_smart_latest =
                    reducer_response.data.smart_results[1]
        /\ (\/ ~reducer_response.has_data
            \/ ~reducer_response.data.has_smart_results
            \/ SmartResultsIsList /\ reducer_response.data.smart_results = <<>>)
              => reducer_target.details_smart_latest = EmptyMap

\* C15, amended: the latest-snapshot field is element 0 of data.smart_results
\* when that is a non-empty list whose element 0 is truthy, and the empty
\* mapping when the list is empty or absent or its element 0 is falsy (null,
\* an empty mapping); the device and metadata fields are data.device and the
\* top-level metadata as they are, each the empty mapping when its key (or
\* `data`) is absent, each derived independently of the others.
C15_ReducerPayload ==
    ReducedPayload =>
        /\ ReducedDeviceAndMetadata
        /\ (/\ SmartResultsIsList
            /\ Len(reducer_response.data.smart_results) > 0
            /\ Truthy(reducer_response.data.smart_results[1]))
              => reducer_target.details_smart_latest =
                    reducer_response.data.smart_results[1]
        /\ (\/ ~reducer_response.has_data
            \/ ~reducer_response.data.has_smart_results
            \/ /\ SmartResultsIsList
               /\ \/ reducer_response.data.smart_results = <<>>
                  \/ ~Truthy(reducer_response.data.smart_results[1]))
              => reducer_target.details_smart_latest = EmptyMap

\* A payload without "data" has been reduced: the metadata is kept, the other
\* two fields are empty.
C15_Witness ==
    /\ reducer_calls = 1
    /\ reducer_response.t = "dict"
    /\ ~reducer_response.has_data
    /\ reducer_response.has_metadata
    /\ reducer_target.details_metadata = MapVal("metadata", "wwn1", 1)
    /\ reducer_target.details_device = EmptyMap
    /\ reducer_initial.details_device # EmptyMap

\* C16 (idempotence of reduction): whatever the record and the detail result,
\* no call of the reducer raises, and the record after a second call with the
\* same result is the record after the first.
C16_ReducerIdempotent ==
    /\ reducer_raised = ""
    /\ reducer_calls > 1 => reducer_target = reducer_first

\* The calls of the API client of one kind that have ended.
DoneCalls(kind) ==
    {c \in 1..MaxApiCalls : api_calls[c].st = "done" /\ api_calls[c].kind = kind}

\* The exchange brought a response that _request returns, with a JSON content
\* type and a body that decodes.
Decoded(exchange) ==
    /\ exchange.transport = "response"
    /\ exchange.status < 400
    /\ IsJsonContentType(exchange.content_type)
    /\ exchange.decodes = "json"

\* _request raised one of the three typed failures and the call raised the
\* same.
TransportFailurePropagates(call) ==
    (call.request.raised /\ call.request.cls \in
        {"ScrutinyApiConnectionError", "ScrutinyApiAuthError",
         "ScrutinyApiResponseError"})
    => (call.result.raised /\ call.result.cls = call.request.cls)

\* C17 (summary fetcher contract), for the responses _request returns with a
\* body that decodes or fails to decode as JSON, and for the typed failures
\* of _request: async_get_summary returns the mapping at data.summary, or
\* raises ScrutinyApiResponseError for a content type that is not JSON, for
\* undecodable JSON, for a body without a true success flag and for a missing
\* or non-mapping data.summary (a `data` that is no mapping included); a typed
\* failure of _request is raised unchanged.
C17_SummaryFetcherContract ==
    \A c \in DoneCalls("summary") :
        LET call == api_calls[c]
            x == call.exchange
            b == x.body
            has_summary_mapping ==
                /\ Decoded(x)
                /\ b.t = "dict" /\ SuccessFlag(b)
                /\ b.has_data /\ b.data_t = "dict"
                /\ b.has_summary /\ b.summary.t = "dict"
        IN /\ TransportFailurePropagates(call)
           /\ has_summary_mapping =>
                 (~call.result.raised /\ call.result.summary = b.summary)
           /\ (/\ x.transport = "response" /\ x.status < 400
               /\ x.decodes \in {"json", "JSONDecodeError"}
               /\ ~has_summary_mapping)
                 => (call.result.raised
                     /\ call.result.cls = "ScrutinyApiResponseError")

\* C18 (detail fetcher contract): async_get_device_details(wwn) asks for the
\* path device/{wwn}/details; it returns, and then the whole decoded body,
\* exactly when the body is a mapping with a true success flag and the keys
\* `data` and `metadata`; a decoded body without a true success flag, without
\* `data` or without `metadata` raises ScrutinyApiResponseError; a typed
\* failure of _request is raised unchanged.
C18_DetailFetcherContract ==
    \A c \in 1..MaxApiCalls :
        LET call == api_calls[c]
            x == call.exchange
            b == x.body
            complete == /\ Decoded(x)
                        /\ b.t = "dict" /\ SuccessFlag(b)
                        /\ b.has_data /\ b.has_metadata
        IN call.kind = "details" =>
              /\ call.url = <<"http://host:port", "api", "device", call.wwn, "details">>
              /\ call.st = "done" =>
                    /\ TransportFailurePropagates(call)
                    /\ ~call.result.raised <=> complete
                    /\ ~call.result.raised => call.result.payload = b
                    /\ (Decoded(x) /\ ~complete) =>
                          call.result.cls = "ScrutinyApiResponseError"

\* A detail call has returned a body whose `data` is null: both keys are there.
C18_Witness ==
    \E c \in DoneCalls("details") :
        /\ api_calls[c].wwn = "wwn2"
        /\ ~api_calls[c].result.raised
        /\ api_calls[c].result.payload.has_data
        /\ api_calls[c].result.payload.data_t = "none"
        /\ api_calls[c].result.payload.has_metadata

\* An exchange that ends well.
GoodExchange ==
    Exchange("response", 200, "application/json", "json",
             Body("true", TRUE, "dict", TRUE,
                  [t |-> "dict", devices |-> <<"wwn1", "wwn2">>], TRUE))

\* C19 (transport failure classification): _request turns a timeout and a
\* client connection error into ScrutinyApiConnectionError, status 401 and
\* 403 into ScrutinyApiAuthError, every other error status into
\* ScrutinyApiResponseError and any other client error into
\* ScrutinyApiConnectionError; a call that fails leaves every other call as it
\* is, and a call in flight can still end well whatever the others came to.
C19_TransportClassification ==
    /\ [](\A c \in 1..MaxApiCalls :
            LET call == api_calls[c]
                x == call.exchange
            IN /\ call.st = "done" =>
                    /\ x.transport \in {"TimeoutError", "ClientConnectionError",
                                        "ClientError"}
                          => (call.request.raised
                              /\ call.request.cls = "ScrutinyApiConnectionError")
                    /\ (x.transport = "response" /\ x.status \in {401, 403})
                          => (call.request.raised
                              /\ call.request.cls = "ScrutinyApiAuthError")
                    /\ (x.transport = "response" /\ x.status >= 400
                        /\ x.status \notin {401, 403})
                          => (call.request.raised
                              /\ call.request.cls = "ScrutinyApiResponseError")
                    /\ (x.transport = "response" /\ x.status < 400)
                          => ~call.request.raised
               /\ call.st = "inflight" => ENABLED ApiCallEnds(c, GoodExchange))
    /\ [][\A c \in 1..MaxApiCalls :
            (api_calls[c].st = "inflight" /\ api_calls'[c].st = "done")
               => \A d \in 1..MaxApiCalls \ {c} : api_calls'[d] = api_calls[d]]_vars

\* One call has met a timeout while another is in flight.
C19_Witness ==
    \E c, d \in 1..MaxApiCalls :
        /\ api_calls[c].st = "done"
        /\ api_calls[c].exchange.transport = "TimeoutError"
        /\ api_calls[c].result.cls = "ScrutinyApiConnectionError"
        /\ api_calls[d].st = "inflight"

\* What the claim C20 names as the condition of availability: the last cycle
\* succeeded, the snapshot is not None, the sensor's WWN is a key of it and
\* that record has the summary-device field.
SensorShouldBeAvailable ==
    /\ entity_coordinator.last_update_success
    /\ entity_coordinator.has_data
    /\ entity.wwn \in DOMAIN entity_coordinator.data
    /\ KEY_SUMMARY_DEVICE \in DOMAIN entity_coordinator.data[entity.wwn]

\* C20: once the sensor has handled the coordinator's latest update, the
\* availability it wrote is exactly: last cycle succeeded, snapshot not None,
\* its WWN a key of the snapshot, and the record has the summary-device field;
\* an unavailable sensor has native value None; and every call of
\* _handle_coordinator_update sets the value to the one computed from the
\* coordinator as it is and writes the entity state exactly once, whether the
\* sensor is available afterwards or not.
C20_MainDiskSensor ==
    /\ [](~update_pending =>
            /\ Available(entity, entity_coordinator) <=> SensorShouldBeAvailable
            /\ ha_state.writes > 0 =>
                  /\ ha_state.available <=> SensorShouldBeAvailable
                  /\ ha_state.native_value = entity.native_value
            /\ ~SensorShouldBeAvailable => entity.native_value = NativeNone)
    /\ [][entity_updates' = entity_updates + 1 =>
            /\ ha_state'.writes = ha_state.writes + 1
            /\ entity'.native_value =
                  IF SensorShouldBeAvailable'
                  THEN ValueForKey(entity.key,
                                   entity_coordinator'.data[entity.wwn])
                  ELSE NativeNone]_vars

\* Reached: a sensor that had a value handled an update after which the
\* coordinator succeeded and knows the disk, but the record lacks the
\* summary-device field; the sensor wrote its state a second time, as
\* unavailable and with value None.
C20_Witness ==
    /\ entity_updates = 2
    /\ ~update_pending
    /\ ha_state.writes = 2
    /\ ha_state.had_value
    /\ ~ha_state.available
    /\ entity.native_value = NativeNone
    /\ entity_coordinator.last_update_success
    /\ entity_coordinator.has_data
    /\ entity.wwn \in DOMAIN entity_coordinator.data
    /\ KEY_SUMMARY_DEVICE \notin DOMAIN entity_coordinator.data[entity.wwn]

\* C21: of the SMART attribute sensor, every coordinator update after which
\* the sensor is available writes the state exactly once; every update that
\* takes it from available to unavailable leaves native value None and no
\* extra attributes and writes the state exactly once; every update on which
\* it was unavailable and stays so writes nothing.
C21_SmartAttributeSensor ==
    [][smart_updates' = smart_updates + 1 =>
          LET before == smart_ha_state.after
              after == SmartAvailable(smart_entity', smart_coordinator')
              written == smart_ha_state'.writes - smart_ha_state.writes
          IN /\ after => written = 1
             /\ before /\ ~after =>
                   /\ smart_entity'.native_value = NativeNone
                   /\ DOMAIN smart_entity'.extra_state_attributes = {}
                   /\ written = 1
             /\ ~before /\ ~after => written = 0]_vars

\* C22: the coordinator is stored in the entry's runtime_data, the hub device
\* is created and the platform setup is forwarded by a setup only after its
\* first refresh has succeeded; a setup whose first refresh failed has raised
\* and has done none of the three.
C22_SetupOrdering ==
    /\ [](setup_call.round > 0 =>
            /\ (\/ config_entry.runtime_data = setup_call.round
                \/ setup_call.hub_created
                \/ setup_call.forwarded) => setup_call.refreshed = "ok"
            /\ setup_call.refreshed = "failed" =>
                  /\ setup_call.raised
                  /\ config_entry.runtime_data # setup_call.round
                  /\ ~setup_call.hub_created
                  /\ ~setup_call.forwarded
            /\ setup_call.refreshed = "ok" =>
                  /\ ~setup_call.raised
                  /\ setup_call.hub_created
                  /\ setup_call.forwarded)
    /\ [][/\ device_registry'.hub # device_registry.hub
             => setup_call'.refreshed = "ok"
          /\ sensor_entities' # {} => setup_call'.refreshed = "ok"]_vars

\* Reached both ways: a setup whose first refresh failed after an earlier
\* setup had gone through, and a setup that has gone through.
C22_Witness ==
    /\ setup_call.round = 2
    /\ setup_call.refreshed = "failed"
    /\ setup_call.raised
    /\ config_entry.state = "setup_retry"
    /\ device_registry.hub

\* C29: every device that appears in a published snapshot eventually has its
\* sensor entities.
C29_NewDevicesGetEntities ==
    \A w \in WWNS :
        (hub_coordinator.has_data /\ w \in hub_coordinator.wwns)
            ~> (w \in sensor_entities)

\* C30: whatever setups, unloads and reloads went before, one change of the
\* entry's options asks for exactly one reload, and the entry holds no update
\* listener that an earlier setup registered.
C30_OneReloadPerOptionsChange ==
    /\ reload_log.changes > 0 => reload_log.asked = 1
    /\ config_entry.state = "loaded" =>
          \A i \in 1..Len(config_entry.update_listeners) :
             config_entry.update_listeners[i].round = setup_call.round
\* C23: a submission whose unique id host:port is configured aborts the flow
\* with already_configured without a connection test: no flow starts a
\* connection test for a unique id that has an entry, a flow that aborts with
\* already_configured does so from its form, and no two config entries have
\* the same unique id.
OneEntryPerUniqueId ==
    \A i, j \in 1..Len(entries) :
        i # j => entries[i].unique_id # entries[j].unique_id

NoTestOfConfigured ==
    \A f \in 1..MaxFlows :
        /\ (flows[f].st # "testing" /\ flows'[f].st = "testing")
           => \A i \in 1..Len(entries) :
                 entries[i].unique_id # <<flows'[f].host, ":", flows'[f].port>>
        /\ (flows[f].st # "aborted" /\ flows'[f].st = "aborted"
            /\ flows'[f].reason = "already_configured")
           => /\ flows[f].st = "form"
              /\ entries' = entries
              /\ \E i \in 1..Len(entries) :
                    entries[i].unique_id = <<flows'[f].host, ":", flows'[f].port>>

C23_Duplicates == []OneEntryPerUniqueId /\ [][NoTestOfConfigured]_vars

C23_Witness ==
    \E f \in 1..MaxFlows :
        /\ flows[f].st = "aborted"
        /\ flows[f].reason = "already_configured"
        /\ \E i \in 1..Len(entries) :
              entries[i].unique_id = <<flows[f].host, ":", flows[f].port>>

\* C24: an entry is created only by a connection test that succeeds; when the
\* test raises, no entry is created and the form is shown again with
\* errors.base cannot_connect for ScrutinyApiConnectionError,
\* invalid_api_response for ScrutinyApiResponseError, invalid_auth for
\* ScrutinyApiAuthError and unknown for any other exception.
ExpectedBase(cls) ==
    CASE cls = "ScrutinyApiConnectionError" -> "cannot_connect"
      [] cls = "ScrutinyApiResponseError" -> "invalid_api_response"
      [] cls = "ScrutinyApiAuthError" -> "invalid_auth"
      [] OTHER -> "unknown"

ConnectionTestDecides ==
    /\ entries' # entries
       => \E f \in 1..MaxFlows :
             /\ flows[f].st = "testing"
             /\ flows'[f].st = "created"
             /\ flows'[f].reason = ""
             /\ Len(entries') = Len(entries) + 1
             /\ SubSeq(entries', 1, Len(entries)) = entries
             /\ entries'[Len(entries')].unique_id
                   = <<flows[f].host, ":", flows[f].port>>
    /\ \A f \in 1..MaxFlows :
          (flows[f].st = "testing" /\ flows'[f] # flows[f])
          => /\ flows'[f].st \in {"created", "form"}
             /\ flows'[f].st = "form"
                => /\ entries' = entries
                   /\ flows'[f].reason # ""
                   /\ flows'[f].base = ExpectedBase(flows'[f].reason)

C24_ConnectionTest == [][ConnectionTestDecides]_vars

C24_Witness ==
    /\ entries = <<>>
    /\ \E f \in 1..MaxFlows :
          /\ flows[f].st = "form"
          /\ flows[f].reason = "ScrutinyApiResponseError"
          /\ flows[f].base = "invalid_api_response"

\* C25: every entry a user step creates has the host, the port and the scan
\* interval in its data, the port being 8080 when none was submitted and the
\* scan interval an integer of at least 1 (60 when none was submitted).
C25_StoredData ==
    \A i \in 1..Len(entries) :
        /\ {"host", "port", "scan_interval"} \subseteq DOMAIN entries[i].data
        /\ entries[i].data["port"].t = "number"
        /\ entries[i].data["scan_interval"].t = "number"
        /\ entries[i].data["scan_interval"].n >= 1

\* C26: an options flow started for a configured entry shows the init form;
\* a step that creates the options entry stores exactly the submitted scan
\* interval of at least 1; a step that rejects its input leaves the entry's
\* options as they were.
C26_OptionsFlow ==
    /\ options_flow.via = "manager"
       => options_flow.st \in {"form", "create_entry"}
    /\ options_flow.st = "create_entry"
       => /\ DOMAIN options_flow.data = {"scan_interval"}
          /\ options_flow.data["scan_interval"].n >= 1
    /\ options_entry.options \in {EmptyDict, options_flow.data}
\* C27 (result-to-device matching): after every successful cycle, whatever
\* the order in which the detail calls ended, the detail section published for
\* the device of each detail call is what that call's own outcome gives (three
\* empty fields for an exception; its device, its first smart result and its
\* metadata for a payload), and every detail field that is not empty comes
\* from a response for that very device in that cycle.
DetailFields(rec) ==
    {rec.details_device, rec.details_smart_latest, rec.details_metadata}

C27_ResultToDeviceMatching ==
    (CycleDone /\ last_update_success /\ summary_data.kind = "mapping") =>
        \A j \in 1..Len(detail_tasks) :
            LET d == detail_tasks[j].wwn
                outcome == detail_results[j]
            IN /\ d \in KeySet(Snapshot.items)
               /\ LET rec == RecordOf(Snapshot.items, d)
                  IN /\ outcome.t \in {"exc", "dict"}
                     /\ outcome.t = "exc" => DetailFields(rec) = {EmptyMap}
                     /\ outcome.t = "dict" =>
                           /\ rec.details_device = outcome.data.device
                           /\ rec.details_smart_latest = outcome.data.smart_results[1]
                           /\ rec.details_metadata = outcome.metadata
                     /\ \A v \in DetailFields(rec) :
                           v # EmptyMap => (v.w = d /\ v.g = cycle)

\* Two devices whose detail calls ended in the order opposite to the one they
\* were issued in, one with a payload and one with an exception.
C27_Witness ==
    /\ CycleDone /\ last_update_success
    /\ Len(detail_tasks) = 2
    /\ completion_order = <<detail_tasks[2].wwn, detail_tasks[1].wwn>>
    /\ detail_results[1].t = "dict"
    /\ detail_results[2].t = "exc"
    /\ RecordOf(Snapshot.items, detail_tasks[1].wwn).details_device.w = detail_tasks[1].wwn
    /\ DetailFields(RecordOf(Snapshot.items, detail_tasks[2].wwn)) = {EmptyMap}
\* C28 (cycle termination): when every HTTP call ends, every cycle that has
\* started ends: the coordinator is idle again, the cycle is recorded as done
\* and last_update_success tells whether it succeeded; the coordinator is
\* refreshing only between a trigger and that end.
C28_CycleTermination ==
    \A g \in 1..MaxCycles :
        (cycle = g /\ pc # "idle")
            ~> (/\ cycle = g
                /\ pc = "idle"
                /\ last_cycle.done
                /\ last_update_success \in BOOLEAN
                /\ last_update_success = last_cycle.succeeded)

\* The second cycle has ended after two detail calls of which one raised and
\* one returned a payload without data.
C28_Witness ==
    /\ pc = "idle"
    /\ cycle = MaxCycles
    /\ last_cycle.done
    /\ Len(detail_tasks) = 2
    /\ AllDone
    /\ \E i \in 1..2 : detail_results[i].t = "exc"
    /\ \E i \in 1..2 : detail_results[i].t = "dict" /\ detail_results[i].data.t = "none"

====
